---- MODULE Spec2Model ----
(***************************************************************************)
(* Scheduling / availability core of healthcare-crm-api.                   *)
(*                                                                         *)
(* Time is counted in seconds of clinic-local time from midnight of day 0, *)
(* and day 0 is a Sunday.  A calendar date is a day index; a time of day   *)
(* is a number of seconds since midnight.                                  *)
(***************************************************************************)
EXTENDS Integers, Sequences, FiniteSets, TLC

VARIABLES
    horarios_laborales,   \* table: weekday 1..7 -> rows, in insertion order
    horarios_especiales,  \* table: date -> rows, in insertion order
    rd,                   \* the request that reads the schedule
    wr,                   \* the request that writes the schedule
    citas,                \* table: the stored appointments
    nextId,               \* the next value of the serial citas.id
    pacientes,            \* table: the ids of the stored patients
    ap                    \* the appointment requests in flight, one per process

vars ==
    <<horarios_laborales, horarios_especiales, rd, wr, citas, nextId, pacientes, ap>>

-----------------------------------------------------------------------------
(* Bounds and input sets *)

LastDate == 1
Dates == 0..LastDate

SecondsPerDay == 86400

HM(h, m) == h * 3600 + m * 60

TR(s, e) == [Start |-> s, End |-> e]

\* Range lists handed to the write operations
WorkRangeLists ==
    { <<>>,
      <<TR(HM(14, 0), HM(18, 0)), TR(HM(9, 0), HM(12, 0))>>,
      <<TR(HM(12, 0), HM(9, 0))>> }

SpecialRangeLists ==
    { <<>>,
      <<TR(HM(15, 0), HM(17, 0)), TR(HM(10, 0), HM(11, 0))>>,
      <<TR(HM(11, 0), HM(11, 0))>> }

DayOfWeekInputs == {0, 1, 7, 8}

WorkDayInputs ==
    { [DayOfWeek |-> w, Ranges |-> rs, Active |-> a] :
        w \in DayOfWeekInputs, rs \in WorkRangeLists, a \in BOOLEAN }

SpecialDayInputs ==
    { [Date |-> d, Ranges |-> rs, Active |-> a] :
        d \in Dates, rs \in SpecialRangeLists, a \in BOOLEAN }

\* (start of the interval as a time of day, length of the interval)
IntervalInputs ==
    { <<HM(11, 0), HM(1, 0)>>,        \* ends exactly at 12:00
      <<HM(11, 0), HM(4, 0)>>,        \* 11:00-15:00 straddles the gap
      <<HM(11, 0), HM(1, 0) + 30>>,   \* ends at 12:00:30
      <<HM(16, 0), HM(18, 0)>> }      \* ends at 10:00 of the next day

\* the requests of the appointment service that run side by side
Procs == {1, 2}

\* the rows of pacientes at the start
Pacientes == {1}

\* an appointment request: its position, and what it carries between its
\* store statements
ApIdle ==
    [pc |-> "idle", id |-> 0, dto |-> <<>>, fecha |-> 0, dur |-> 0, err |-> "nil",
     slots |-> <<>>, paciente |-> 0]

ApDone(err) == [ApIdle EXCEPT !.pc = "done", !.err = err]

-----------------------------------------------------------------------------
(* models.TimeRange *)

IsValid(tr) == tr.End > tr.Start

-----------------------------------------------------------------------------
(* Rows of horarios_laborales / horarios_especiales *)

\* a time.Time bound to a TIME column keeps its time of day
TimeCol(t) == t % SecondsPerDay

OpenRow(tr) ==
    [hasHours |-> TRUE, open |-> TimeCol(tr.Start), close |-> TimeCol(tr.End),
     abierto |-> TRUE]

ClosedRow == [hasHours |-> FALSE, open |-> 0, close |-> 0, abierto |-> FALSE]

RECURSIVE OpenRows(_)
OpenRows(ranges) ==
    IF ranges = <<>> THEN <<>>
    ELSE <<OpenRow(Head(ranges))>> \o OpenRows(Tail(ranges))

\* a replace-all without the closed row of a day that has no open range
NewRowsOpenOnly(day) ==
    IF day.Active THEN OpenRows(day.Ranges) ELSE <<>>

\* the rows a committed replace-all leaves for the key
NewRows(day) ==
    IF day.Active /\ Len(day.Ranges) > 0 THEN OpenRows(day.Ranges)
    ELSE <<ClosedRow>>

-----------------------------------------------------------------------------
(* Queries *)

Perms(s) ==
    LET n == Len(s)
        Bij == { p \in [1..n -> 1..n] : \A i, j \in 1..n : p[i] = p[j] => i = j }
    IN { [i \in 1..n |-> s[p[i]]] : p \in Bij }

\* ORDER BY hora_apertura (ascending, NULL last)
LeqOpen(a, b) ==
    IF a.hasHours THEN (~b.hasHours \/ a.open <= b.open) ELSE ~b.hasHours

OrderByOpen(rows) ==
    { s \in Perms(rows) :
        \A i, j \in 1..Len(s) : i < j => LeqOpen(s[i], s[j]) }

ScanRanges(row) ==
    IF row.abierto /\ row.hasHours
    THEN <<TR(row.open, row.close)>>
    ELSE <<>>

ScanWorkDay(w, row) ==
    [DayOfWeek |-> w, Active |-> row.abierto, Ranges |-> ScanRanges(row)]

ScanSpecialDay(d, row) ==
    [Date |-> d, Active |-> row.abierto, Ranges |-> ScanRanges(row)]

RECURSIVE WorkingHoursFrom(_, _)
WorkingHoursFrom(tbl, w) ==
    IF w > 7 THEN { <<>> }
    ELSE { [i \in 1..Len(s) |-> ScanWorkDay(w, s[i])] \o rest :
             s \in OrderByOpen(tbl[w]), rest \in WorkingHoursFrom(tbl, w + 1) }

\* the results the query can return: one per order the ORDER BY allows
GetAllWorkingHours(tbl) == WorkingHoursFrom(tbl, 1)

\* a query answered from the table as it was before any write
GetSpecialHoursAtStart(tbl, date) == { <<>> }

GetSpecialHoursByDate(tbl, date) ==
    { [i \in 1..Len(s) |-> ScanSpecialDay(date, s[i])] : s \in OrderByOpen(tbl[date]) }

-----------------------------------------------------------------------------
(* service.GetEffectiveDay *)

RECURSIVE ActiveRanges(_)
ActiveRanges(days) ==
    IF days = <<>> THEN <<>>
    ELSE (IF Head(days).Active THEN Head(days).Ranges ELSE <<>>)
         \o ActiveRanges(Tail(days))

SortByStartDescending(ranges) ==
    { s \in Perms(ranges) :
        \A i, j \in 1..Len(s) : i < j => ~(s[i].Start < s[j].Start) }

\* sort.Slice by Start.Before: any order with ascending starts
SortByStart(ranges) ==
    { s \in Perms(ranges) :
        \A i, j \in 1..Len(s) : i < j => ~(s[j].Start < s[i].Start) }

AnyRow(days) == Len(days) > 0

AnyActive(days) == \E i \in 1..Len(days) : days[i].Active

Weekday(date) == date % 7

\* the native weekday, Sunday left at 0
NativeWeekday(date) == date % 7

ISOWeekday(date) ==
    LET weekday == Weekday(date) IN IF weekday = 0 THEN 7 ELSE weekday

\* the override path with the weekly ranges of the date's weekday merged in
OverrideDayMerged(specials) ==
    LET w == ISOWeekday(specials[1].Date)
        weekly == [i \in 1..Len(horarios_laborales[w]) |->
                      ScanWorkDay(w, horarios_laborales[w][i])]
    IN { [Date |-> specials[1].Date, Ranges |-> rs, IsOverride |-> TRUE,
          Active |-> AnyActive(specials)] :
           rs \in SortByStart(ActiveRanges(specials) \o ActiveRanges(weekly)) }

OverrideDay(specials) ==
    { [Date |-> specials[1].Date, Ranges |-> rs, IsOverride |-> TRUE,
       Active |-> AnyActive(specials)] :
        rs \in SortByStart(ActiveRanges(specials)) }

MatchingWorkDays(date, raw) ==
    SelectSeq(raw, LAMBDA wd : wd.DayOfWeek = ISOWeekday(date))

FallbackDay(date, raw) ==
    LET matching == MatchingWorkDays(date, raw)
    IN { [Date |-> date, Ranges |-> rs, IsOverride |-> FALSE,
          Active |-> AnyActive(matching)] :
           rs \in SortByStart(ActiveRanges(matching)) }

-----------------------------------------------------------------------------
(* service.GetWorkingHours *)

RECURSIVE AllRanges(_)
AllRanges(days) ==
    IF days = <<>> THEN <<>>
    ELSE Head(days).Ranges \o AllRanges(Tail(days))

\* the keys of the map grouped
GroupedDays(raw) == { raw[i].DayOfWeek : i \in 1..Len(raw) }

\* the entry of grouped for weekday w once its ranges are sorted
MergedWorkDay(raw, w) ==
    LET rows == SelectSeq(raw, LAMBDA wd : wd.DayOfWeek = w)
    IN { [DayOfWeek |-> w, Ranges |-> rs, Active |-> AnyActive(rows)] :
           rs \in SortByStart(AllRanges(rows)) }

\* merged left in the order the map was iterated in
MapOrder(days) ==
    { s \in [1..Cardinality(days) -> days] :
        \A i, j \in 1..Cardinality(days) : i # j => s[i] # s[j] }

\* sort.Slice of merged by DayOfWeek
SortByDayOfWeek(days) ==
    { s \in [1..Cardinality(days) -> days] :
        \A i, j \in 1..Cardinality(days) :
          i < j => s[i].DayOfWeek < s[j].DayOfWeek }

\* the lists GetWorkingHours can return for the rows raw
GroupWorkDays(raw) ==
    LET ws == GroupedDays(raw)
        entries == UNION { MergedWorkDay(raw, w) : w \in ws }
        grouped == { f \in [ws -> entries] : \A w \in ws : f[w] \in MergedWorkDay(raw, w) }
    IN UNION { SortByDayOfWeek({ f[w] : w \in ws }) : f \in grouped }

-----------------------------------------------------------------------------
(* service.IsTimeRangeWithinWorkingHours *)

Hour(t) == (t % SecondsPerDay) \div 3600
Minute(t) == (t % 3600) \div 60

TimeOfDayMinutes(t) == Hour(t) * 60 + Minute(t)

FitsRange(r, start, end) ==
    /\ TimeOfDayMinutes(start) >= TimeOfDayMinutes(r.Start)
    /\ TimeOfDayMinutes(end) <= TimeOfDayMinutes(r.End)

WithinWorkingHoursNoClosedCheck(eff, start, end) ==
    IF \E i \in 1..Len(eff.Ranges) : FitsRange(eff.Ranges[i], start, end)
    THEN <<TRUE, "nil">>
    ELSE <<FALSE, "conflict: outside working hours">>

\* <<ok, err>> once the effective day is resolved
WithinWorkingHours(eff, start, end) ==
    IF ~eff.Active THEN <<FALSE, "conflict: day closed">>
    ELSE IF \E i \in 1..Len(eff.Ranges) : FitsRange(eff.Ranges[i], start, end)
         THEN <<TRUE, "nil">>
         ELSE <<FALSE, "conflict: outside working hours">>

-----------------------------------------------------------------------------
(* The reading request: GetEffectiveDay, alone or inside                   *)
(* IsTimeRangeWithinWorkingHours.  One step per store query.               *)

RdIdle ==
    [pc |-> "idle", op |-> "none", date |-> 0, start |-> 0, end |-> 0,
     queries |-> <<>>, eff |-> <<>>, ok |-> FALSE, err |-> "nil",
     during |-> "none", days |-> <<>>, workDays |-> <<>>]

\* history: where the writing transaction stands when a query runs
TxPhase == IF wr.pc \in {"idle", "done"} THEN "none" ELSE wr.pc

\* a loop that stops one date short of end
NotBefore(d, end) == d >= end

\* d.After(end)
After(d, end) == d > end

\* a GetEffectiveRange that returns the days resolved so far with the error
ReturnPartial(call, eff, err) ==
    IF call.op = "GetEffectiveDay"
    THEN [call EXCEPT !.pc = "done", !.eff = eff, !.err = err]
    ELSE IF call.op = "GetEffectiveRange"
    THEN IF err # "nil"
         THEN [call EXCEPT !.pc = "done", !.err = err]
         ELSE IF After(call.date + 1, call.end)
         THEN [call EXCEPT !.pc = "done", !.days = Append(@, eff[1])]
         ELSE [call EXCEPT !.pc = "next", !.days = Append(@, eff[1]),
                           !.date = @ + 1]
    ELSE IF err # "nil"
         THEN [call EXCEPT !.pc = "done", !.eff = eff, !.ok = FALSE, !.err = err]
         ELSE LET res == WithinWorkingHours(eff[1], call.start, call.end)
              IN [call EXCEPT !.pc = "done", !.eff = eff,
                              !.ok = res[1], !.err = res[2]]

\* the caller's part after GetEffectiveDay has returned (eff, err)
Return(call, eff, err) ==
    IF call.op = "GetEffectiveDay"
    THEN [call EXCEPT !.pc = "done", !.eff = eff, !.err = err]
    ELSE IF call.op = "GetEffectiveRange"
    THEN IF err # "nil"
         THEN [call EXCEPT !.pc = "done", !.days = <<>>, !.err = err]
         ELSE IF After(call.date + 1, call.end)
         THEN [call EXCEPT !.pc = "done", !.days = Append(@, eff[1])]
         ELSE [call EXCEPT !.pc = "next", !.days = Append(@, eff[1]),
                           !.date = @ + 1]
    ELSE IF err # "nil"
         THEN [call EXCEPT !.pc = "done", !.eff = eff, !.ok = FALSE, !.err = err]
         ELSE LET res == WithinWorkingHours(eff[1], call.start, call.end)
              IN [call EXCEPT !.pc = "done", !.eff = eff,
                              !.ok = res[1], !.err = res[2]]

\* the special-hours query without the early return of the override path
QuerySpecialNoReturn(call) ==
    LET c == [call EXCEPT !.queries = <<"GetSpecialHoursByDate">>]
    IN \/ rd' = Return(c, <<>>, "internal")
       \/ \E specials \in GetSpecialHoursByDate(horarios_especiales, c.date) :
            rd' = [c EXCEPT !.pc = "fallback"]

\* the special-hours query and the override path
QuerySpecial(call) ==
    LET c == [call EXCEPT !.queries = <<"GetSpecialHoursByDate">>,
                          !.during = TxPhase]
    IN \/ rd' = Return(c, <<>>, "internal")
       \/ \E specials \in GetSpecialHoursByDate(horarios_especiales, c.date) :
            IF Len(specials) > 0
            THEN \E eff \in OverrideDay(specials) : rd' = Return(c, <<eff>>, "nil")
            ELSE rd' = [c EXCEPT !.pc = "fallback"]

GetEffectiveDay(date) ==
    /\ rd.pc \in {"idle", "done"}
    /\ QuerySpecial([RdIdle EXCEPT !.op = "GetEffectiveDay", !.date = date])
    /\ UNCHANGED <<horarios_laborales, horarios_especiales, wr, citas, nextId, pacientes, ap>>

IsTimeRangeWithinWorkingHours(date, start, end) ==
    /\ rd.pc \in {"idle", "done"}
    /\ QuerySpecial([RdIdle EXCEPT !.op = "IsTimeRangeWithinWorkingHours",
                                   !.date = date, !.start = start, !.end = end])
    /\ UNCHANGED <<horarios_laborales, horarios_especiales, wr, citas, nextId, pacientes, ap>>

\* service.GetEffectiveRange up to the first query of its first date
GetEffectiveRange(start, end) ==
    /\ rd.pc \in {"idle", "done"}
    /\ LET call == [RdIdle EXCEPT !.op = "GetEffectiveRange", !.date = start,
                                  !.start = start, !.end = end]
       IN IF After(start, end)
          THEN rd' = [call EXCEPT !.pc = "done"]
          ELSE QuerySpecial(call)
    /\ UNCHANGED <<horarios_laborales, horarios_especiales, wr, citas, nextId, pacientes, ap>>

\* the next date of the loop of GetEffectiveRange
NextDate ==
    /\ rd.pc = "next"
    /\ QuerySpecial(rd)
    /\ UNCHANGED <<horarios_laborales, horarios_especiales, wr, citas, nextId, pacientes, ap>>

\* the weekly fallback
QueryWorking ==
    /\ rd.pc = "fallback"
    /\ LET c == [rd EXCEPT !.queries = Append(@, "GetAllWorkingHours"),
                            !.during = TxPhase]
       IN \/ rd' = Return(c, <<>>, "internal")
          \/ \E raw \in GetAllWorkingHours(horarios_laborales) :
               \E eff \in FallbackDay(c.date, raw) :
                 rd' = Return(c, <<eff>>, "nil")
    /\ UNCHANGED <<horarios_laborales, horarios_especiales, wr, citas, nextId, pacientes, ap>>

\* service.GetWorkingHours: one query, then the grouping
GetWorkingHours ==
    /\ rd.pc \in {"idle", "done"}
    /\ LET c == [RdIdle EXCEPT !.op = "GetWorkingHours", !.pc = "done",
                               !.queries = <<"GetAllWorkingHours">>,
                               !.during = TxPhase]
       IN \/ rd' = [c EXCEPT !.err = "internal"]
          \/ \E raw \in GetAllWorkingHours(horarios_laborales) :
               \E merged \in GroupWorkDays(raw) :
                 rd' = [c EXCEPT !.workDays = merged]
    /\ UNCHANGED <<horarios_laborales, horarios_especiales, wr, citas, nextId, pacientes, ap>>

-----------------------------------------------------------------------------
(* The writing request *)

WrIdle ==
    [pc |-> "idle", op |-> "none", table |-> "none", key |-> 0, day |-> <<>>,
     tx |-> <<>>, i |-> 0, err |-> "nil"]

WrDone(op, err) == [WrIdle EXCEPT !.pc = "done", !.op = op, !.err = err]

\* a service that hands every range list to the repository
ValidateNothing(day) == "nil"

\* the range validation of UpdateWorkDay / AddSpecialDay / UpdateSpecialDay
ValidateRanges(day) ==
    IF \E i \in 1..Len(day.Ranges) : ~IsValid(day.Ranges[i])
    THEN "invalid input" ELSE "nil"

\* a repository that takes every weekday number
CheckNoDayOfWeek(day) == "nil"

\* the argument check of repository.UpdateWorkingHour
CheckDayOfWeek(day) ==
    IF day.DayOfWeek < 1 \/ day.DayOfWeek > 7 THEN "invalid input" ELSE "nil"

\* the finished call; with keep, a committed one keeps the request it
\* carried in wr
WrKept(keep, key, day, op, err) ==
    IF keep /\ err = "nil" THEN [WrDone(op, err) EXCEPT !.key = key, !.day = day]
    ELSE WrDone(op, err)

\* a whole replace-all transaction: it commits, or it fails and rolls back
UpdateWorkDayKeeping(keep, day) ==
    /\ wr.pc \in {"idle", "done"}
    /\ UNCHANGED <<horarios_especiales, rd, citas, nextId, pacientes, ap>>
    /\ IF ValidateRanges(day) # "nil"
       THEN /\ wr' = WrKept(keep, day.DayOfWeek, day, "UpdateWorkDay", ValidateRanges(day))
            /\ UNCHANGED horarios_laborales
       ELSE IF CheckDayOfWeek(day) # "nil"
       THEN /\ wr' = WrKept(keep, day.DayOfWeek, day, "UpdateWorkDay", CheckDayOfWeek(day))
            /\ UNCHANGED horarios_laborales
       ELSE \/ /\ wr' = WrKept(keep, day.DayOfWeek, day, "UpdateWorkDay", "internal")
               /\ UNCHANGED horarios_laborales
            \/ /\ wr' = WrKept(keep, day.DayOfWeek, day, "UpdateWorkDay", "nil")
               /\ horarios_laborales' =
                    [horarios_laborales EXCEPT ![day.DayOfWeek] = NewRows(day)]

UpdateWorkDay(day) == UpdateWorkDayKeeping(FALSE, day)

UpdateSpecialHourKeeping(keep, op, day) ==
    /\ wr.pc \in {"idle", "done"}
    /\ UNCHANGED <<horarios_laborales, rd, citas, nextId, pacientes, ap>>
    /\ IF ValidateRanges(day) # "nil"
       THEN /\ wr' = WrKept(keep, day.Date, day, op, ValidateRanges(day))
            /\ UNCHANGED horarios_especiales
       ELSE \/ /\ wr' = WrKept(keep, day.Date, day, op, "internal")
               /\ UNCHANGED horarios_especiales
            \/ /\ wr' = WrKept(keep, day.Date, day, op, "nil")
               /\ horarios_especiales' =
                    [horarios_especiales EXCEPT ![day.Date] = NewRows(day)]

UpdateSpecialHour(op, day) == UpdateSpecialHourKeeping(FALSE, op, day)

AddSpecialDay(day) == UpdateSpecialHour("AddSpecialDay", day)

UpdateSpecialDay(day) == UpdateSpecialHour("UpdateSpecialDay", day)

\* one DELETE statement, no transaction
DeleteSpecialDayKeeping(keep, date) ==
    /\ wr.pc \in {"idle", "done"}
    /\ UNCHANGED <<horarios_laborales, rd, citas, nextId, pacientes, ap>>
    /\ \/ /\ wr' = WrKept(keep, date, <<>>, "DeleteSpecialDay", "internal")
          /\ UNCHANGED horarios_especiales
       \/ /\ wr' = WrKept(keep, date, <<>>, "DeleteSpecialDay", "nil")
          /\ horarios_especiales' = [horarios_especiales EXCEPT ![date] = <<>>]

DeleteSpecialDay(date) == DeleteSpecialDayKeeping(FALSE, date)

-----------------------------------------------------------------------------
(* The schedule service: writes commit atomically, reads take one step per *)
(* query.                                                                  *)

Init ==
    /\ horarios_laborales = [w \in 1..7 |-> <<>>]
    /\ horarios_especiales = [d \in Dates |-> <<>>]
    /\ rd = RdIdle
    /\ wr = WrIdle
    /\ citas = {}
    /\ nextId = 1
    /\ pacientes = Pacientes
    /\ ap = [p \in Procs |-> ApIdle]

Writes ==
    \/ \E day \in WorkDayInputs : UpdateWorkDay(day)
    \/ \E day \in SpecialDayInputs : AddSpecialDay(day)
    \/ \E day \in SpecialDayInputs : UpdateSpecialDay(day)
    \/ \E date \in Dates : DeleteSpecialDay(date)

\* resolving effective days while the schedule is rewritten
Next ==
    \/ \E date \in Dates : GetEffectiveDay(date)
    \/ QueryWorking
    \/ Writes

Spec == Init /\ [][Next]_vars

\* the schedule written by one request after another
NextWrites == Writes

SpecWrites == Init /\ [][NextWrites]_vars

\* one client at a time writes the schedule and resolves dates
NextLatest ==
    \/ \E day \in WorkDayInputs : UpdateWorkDayKeeping(TRUE, day)
    \/ \E day \in SpecialDayInputs : UpdateSpecialHourKeeping(TRUE, "AddSpecialDay", day)
    \/ \E date \in Dates : DeleteSpecialDayKeeping(TRUE, date)
    \/ \E date \in Dates : GetEffectiveDay(date)
    \/ QueryWorking

SpecLatest == Init /\ [][NextLatest]_vars

\* validating intervals while the schedule is rewritten
NextHours ==
    \/ \E date \in Dates : \E iv \in IntervalInputs :
         IsTimeRangeWithinWorkingHours(date, date * SecondsPerDay + iv[1],
                                       date * SecondsPerDay + iv[1] + iv[2])
    \/ QueryWorking
    \/ Writes

SpecHours == Init /\ [][NextHours]_vars

\* the rows a key can hold after a write of the service
WorkRowsOptions ==
    {<<>>} \cup { NewRows(day) : day \in { d \in WorkDayInputs : ValidateRanges(d) = "nil" } }

SpecialRowsOptions ==
    {<<>>} \cup { NewRows(day) : day \in { d \in SpecialDayInputs : ValidateRanges(d) = "nil" } }

\* any schedule the writes can leave, which stays as it is
InitRange ==
    /\ horarios_laborales \in
         { [w \in 1..7 |-> IF w = 7 THEN sun ELSE IF w = 1 THEN mon ELSE <<>>] :
             sun \in WorkRowsOptions, mon \in WorkRowsOptions }
    /\ horarios_especiales \in [Dates -> SpecialRowsOptions]
    /\ rd = RdIdle
    /\ wr = WrIdle
    /\ citas = {}
    /\ nextId = 1
    /\ pacientes = Pacientes
    /\ ap = [p \in Procs |-> ApIdle]

\* resolving dates and ranges of dates against a schedule that is not
\* rewritten
NextRange ==
    \/ \E date \in Dates : GetEffectiveDay(date)
    \/ \E start \in Dates : \E end \in Dates : GetEffectiveRange(start, end)
    \/ NextDate
    \/ QueryWorking

SpecRange == InitRange /\ [][NextRange]_vars

\* the four read operations of the service against a schedule that is not
\* rewritten
NextReads ==
    \/ \E date \in Dates : GetEffectiveDay(date)
    \/ \E date \in Dates : \E iv \in IntervalInputs :
         IsTimeRangeWithinWorkingHours(date, date * SecondsPerDay + iv[1],
                                       date * SecondsPerDay + iv[1] + iv[2])
    \/ \E start \in Dates : \E end \in Dates : GetEffectiveRange(start, end)
    \/ NextDate
    \/ QueryWorking
    \/ GetWorkingHours

SpecReads == InitRange /\ [][NextReads]_vars

-----------------------------------------------------------------------------
(* The replace-all transaction of UpdateWorkingHour / UpdateSpecialHour,   *)
(* one step per statement.  What a transaction writes is in wr.tx and      *)
(* reaches the table other requests read when it commits; a failed         *)
(* statement ends the call and the deferred Rollback discards wr.tx.       *)

TxDates == {1}

TxWorkDayInputs == { day \in WorkDayInputs : day.DayOfWeek \in {0, 1, 8} }

TxSpecialDayInputs == { day \in SpecialDayInputs : day.Date \in TxDates }

InTx == {"delete", "insert", "insertClosed", "commit"}

TxBegun(op, table, key, day) ==
    [WrIdle EXCEPT !.pc = "delete", !.op = op, !.table = table, !.key = key,
                   !.day = day, !.i = 1]

BeginUpdateWorkDay(day) ==
    /\ wr.pc \in {"idle", "done"}
    /\ UNCHANGED <<horarios_laborales, horarios_especiales, rd, citas, nextId, pacientes, ap>>
    /\ IF ValidateRanges(day) # "nil"
       THEN wr' = WrDone("UpdateWorkDay", ValidateRanges(day))
       ELSE IF CheckDayOfWeek(day) # "nil"
       THEN wr' = WrDone("UpdateWorkDay", CheckDayOfWeek(day))
       ELSE \/ wr' = WrDone("UpdateWorkDay", "internal")
            \/ wr' = TxBegun("UpdateWorkDay", "horarios_laborales", day.DayOfWeek, day)

BeginUpdateSpecialHour(op, day) ==
    /\ wr.pc \in {"idle", "done"}
    /\ UNCHANGED <<horarios_laborales, horarios_especiales, rd, citas, nextId, pacientes, ap>>
    /\ IF ValidateRanges(day) # "nil"
       THEN wr' = WrDone(op, ValidateRanges(day))
       ELSE \/ wr' = WrDone(op, "internal")
            \/ wr' = TxBegun(op, "horarios_especiales", day.Date, day)

BeginAddSpecialDay(day) == BeginUpdateSpecialHour("AddSpecialDay", day)

BeginUpdateSpecialDay(day) == BeginUpdateSpecialHour("UpdateSpecialDay", day)

\* a DELETE run on the connection pool instead of the transaction
DeletedOutsideTx(tbl, key) == [tbl EXCEPT ![key] = <<>>]

\* the table other requests read once the transaction has run its DELETE
DeletedInTx(tbl, key) == tbl

TxDelete ==
    /\ wr.pc = "delete"
    /\ UNCHANGED <<rd, citas, nextId, pacientes, ap>>
    /\ \/ /\ wr' = WrDone(wr.op, "internal")
          /\ UNCHANGED <<horarios_laborales, horarios_especiales>>
       \/ /\ wr' = [wr EXCEPT !.tx = <<>>,
                               !.pc = IF wr.day.Active /\ Len(wr.day.Ranges) > 0
                                      THEN "insert" ELSE "insertClosed"]
          /\ IF wr.table = "horarios_laborales"
             THEN /\ horarios_laborales' = DeletedInTx(horarios_laborales, wr.key)
                  /\ UNCHANGED horarios_especiales
             ELSE /\ horarios_especiales' = DeletedInTx(horarios_especiales, wr.key)
                  /\ UNCHANGED horarios_laborales

\* Prepare and the Exec of one range; either can fail
TxInsert ==
    /\ wr.pc = "insert"
    /\ UNCHANGED <<horarios_laborales, horarios_especiales, rd, citas, nextId, pacientes, ap>>
    /\ LET tr == wr.day.Ranges[wr.i]
       IN IF ~IsValid(tr)
          THEN wr' = WrDone(wr.op, "invalid input")
          ELSE \/ wr' = WrDone(wr.op, "internal")
               \/ wr' = [wr EXCEPT !.tx = Append(@, OpenRow(tr)),
                                    !.i = @ + 1,
                                    !.pc = IF wr.i = Len(wr.day.Ranges)
                                           THEN "commit" ELSE "insert"]

TxInsertClosed ==
    /\ wr.pc = "insertClosed"
    /\ UNCHANGED <<horarios_laborales, horarios_especiales, rd, citas, nextId, pacientes, ap>>
    /\ \/ wr' = WrDone(wr.op, "internal")
       \/ wr' = [wr EXCEPT !.tx = <<ClosedRow>>, !.pc = "commit"]

TxCommit ==
    /\ wr.pc = "commit"
    /\ UNCHANGED <<rd, citas, nextId, pacientes, ap>>
    /\ \/ /\ wr' = WrDone(wr.op, "internal")
          /\ UNCHANGED <<horarios_laborales, horarios_especiales>>
       \/ /\ wr' = WrDone(wr.op, "nil")
          /\ IF wr.table = "horarios_laborales"
             THEN /\ horarios_laborales' = [horarios_laborales EXCEPT ![wr.key] = wr.tx]
                  /\ UNCHANGED horarios_especiales
             ELSE /\ horarios_especiales' = [horarios_especiales EXCEPT ![wr.key] = wr.tx]
                  /\ UNCHANGED horarios_laborales

NextTx ==
    \/ \E date \in TxDates : GetEffectiveDay(date)
    \/ QueryWorking
    \/ \E day \in TxWorkDayInputs : BeginUpdateWorkDay(day)
    \/ \E day \in TxSpecialDayInputs : BeginAddSpecialDay(day)
    \/ \E day \in TxSpecialDayInputs : BeginUpdateSpecialDay(day)
    \/ TxDelete
    \/ TxInsert
    \/ TxInsertClosed
    \/ TxCommit

SpecTx == Init /\ [][NextTx]_vars

-----------------------------------------------------------------------------
(* The appointment service.  A request takes one step per statement it     *)
(* runs on citas; the schedule is not rewritten while appointments are     *)
(* booked, so the queries of one validation read one state of it.          *)

MaxId == 2

gapMinutes == 0

\* Fecha inputs: Sunday 11:30, Monday 11:00, 11:30 and 12:00
FechaInputs ==
    { 0 * SecondsPerDay + HM(11, 30), 1 * SecondsPerDay + HM(11, 0),
      1 * SecondsPerDay + HM(11, 30), 1 * SecondsPerDay + HM(12, 0) }

\* an optional field is <<>> (nil) or <<value>>
CreateInputs ==
    { [PacienteID |-> pid, Nombre |-> nombre, Fecha |-> fecha, Duracion |-> dur] :
        pid \in {<<>>, <<1>>, <<2>>}, nombre \in {<<>>, <<"Ana">>},
        fecha \in FechaInputs, dur \in {0, HM(0, 30)} }

UpdateInputs ==
    { [Fecha |-> fecha, Duracion |-> dur] :
        fecha \in {<<>>, <<1 * SecondsPerDay + HM(11, 30)>>},
        dur \in {<<>>, <<0>>, <<HM(1, 0)>>} }

IdInputs == 0..MaxId

\* the same instant, expressed in the clinic's zone
NormalizeToClinic(t) == t

StartOfClinicDay(t) == (t \div SecondsPerDay) * SecondsPerDay

\* a time.Time bound to a DATE column keeps its clinic date
DateCol(t) == t \div SecondsPerDay

\* an adapter that finds every patient
ExistsUnchecked(id) == { <<TRUE, "nil">> }

\* PatientAdapter.Exists: (exists, err)
Exists(id) ==
    {<<FALSE, "internal">>} \cup
    (IF id \in pacientes THEN {<<TRUE, "nil">>} ELSE {<<FALSE, "not found">>})

\* schedule.Service.GetEffectiveDay read in one state of the schedule
EffectiveDays(date) ==
    UNION { IF Len(specials) > 0 THEN OverrideDay(specials)
            ELSE UNION { FallbackDay(date, raw) :
                           raw \in GetAllWorkingHours(horarios_laborales) } :
            specials \in GetSpecialHoursByDate(horarios_especiales, date) }

\* ScheduleAdapter.IsWithinBusinessHours: (ok, err)
IsWithinBusinessHours(date, start, end) ==
    {<<FALSE, "internal">>} \cup
    { WithinWorkingHours(eff, start, end) : eff \in EffectiveDays(DateCol(date)) }

\* repository.GetBetween: WHERE fecha >= $1 AND fecha < $2
GetBetween(rows, start, end) == { a \in rows : a.fecha >= start /\ a.fecha < end }

\* the comparison with both bounds included
OverlapsOrTouches(fecha, endTime, ex) ==
    LET exEnd == ex.fecha + ex.dur
        exEndWithGap == exEnd + gapMinutes * 60
        endTimeWithGap == endTime + gapMinutes * 60
    IN fecha <= exEndWithGap /\ endTimeWithGap >= ex.fecha

\* the comparison of the conflict scans
Overlaps(fecha, endTime, ex) ==
    LET exEnd == ex.fecha + ex.dur
        exEndWithGap == exEnd + gapMinutes * 60
        endTimeWithGap == endTime + gapMinutes * 60
    IN fecha < exEndWithGap /\ endTimeWithGap > ex.fecha

\* the scan of Create
CreateConflict(existing, fecha, endTime) ==
    \E ex \in existing : Overlaps(fecha, endTime, ex)

\* the scan of Update without its identity test
UpdateConflictWithSelf(existing, id, fecha, endTime) ==
    \E ex \in existing : Overlaps(fecha, endTime, ex)

\* the scan of Update
UpdateConflict(existing, id, fecha, endTime) ==
    \E ex \in existing : ex.id # id /\ Overlaps(fecha, endTime, ex)

\* an INSERT that the store refuses when the interval is taken
RepoCreateIfFree(rows, id, fecha, dur) ==
    IF \E ex \in rows : Overlaps(fecha, fecha + dur, ex) THEN rows
    ELSE rows \cup {[id |-> id, fecha |-> fecha, dur |-> dur]}

\* repository.Create: INSERT INTO citas ... RETURNING id
RepoCreate(rows, id, fecha, dur) ==
    rows \cup {[id |-> id, fecha |-> fecha, dur |-> dur]}

\* repository.Update: UPDATE citas SET the fields the dto carries WHERE id
RepoUpdate(rows, id, dto) ==
    { IF a.id # id THEN a
      ELSE [a EXCEPT !.fecha = IF dto.Fecha # <<>> THEN dto.Fecha[1] ELSE @,
                     !.dur = IF dto.Duracion # <<>> THEN dto.Duracion[1] ELSE @] :
      a \in rows }

schedule == <<horarios_laborales, horarios_especiales, rd, wr>>

\* the checks of service.Create, up to the answer of the schedule validator
CreateChecks(p, dto) ==
    LET fecha == NormalizeToClinic(dto.Fecha)
        endTime == fecha + dto.Duracion
    IN IF dto.PacienteID = <<>> /\ dto.Nombre = <<>>
       THEN ap' = [ap EXCEPT ![p] = ApDone("invalid input")]
       ELSE IF dto.Duracion <= 0
       THEN ap' = [ap EXCEPT ![p] = ApDone("invalid input")]
       ELSE \E found \in (IF dto.PacienteID # <<>> THEN Exists(dto.PacienteID[1])
                          ELSE {<<TRUE, "nil">>}) :
              IF found[2] # "nil"
              THEN ap' = [ap EXCEPT ![p] = ApDone(found[2])]
              ELSE IF ~found[1]
              THEN ap' = [ap EXCEPT ![p] = ApDone("not found")]
              ELSE \E within \in IsWithinBusinessHours(fecha, fecha, endTime) :
                     IF within[2] # "nil"
                     THEN ap' = [ap EXCEPT ![p] = ApDone(within[2])]
                     ELSE IF ~within[1]
                     THEN ap' = [ap EXCEPT ![p] = ApDone("invalid input")]
                     ELSE ap' = [ap EXCEPT ![p] =
                                   [ApIdle EXCEPT !.pc = "scan", !.fecha = fecha,
                                                  !.dur = dto.Duracion,
                                                  !.paciente = ap[p].paciente]]

\* service.Create up to the answer of the schedule validator
Create(p, dto) ==
    /\ ap[p].pc \in {"idle", "done"}
    /\ nextId + Cardinality({ q \in Procs : ap[q].pc \in {"scan", "insert"} }) <= MaxId
    /\ UNCHANGED <<schedule, citas, nextId, pacientes>>
    /\ CreateChecks(p, dto)

\* the GetBetween of service.Create and its conflict scan
CreateScan(p) ==
    /\ ap[p].pc = "scan"
    /\ UNCHANGED <<schedule, citas, nextId, pacientes>>
    /\ LET fecha == ap[p].fecha
           endTime == fecha + ap[p].dur
           dayStart == StartOfClinicDay(fecha)
           dayEnd == dayStart + SecondsPerDay
       IN \/ ap' = [ap EXCEPT ![p] = ApDone("internal")]
          \/ IF CreateConflict(GetBetween(citas, dayStart, dayEnd), fecha, endTime)
             THEN ap' = [ap EXCEPT ![p] = ApDone("conflict: overlap")]
             ELSE ap' = [ap EXCEPT ![p].pc = "insert"]

\* the repo.Create that ends service.Create
CreateInsert(p) ==
    /\ ap[p].pc = "insert"
    /\ UNCHANGED <<schedule, pacientes>>
    /\ \/ /\ ap' = [ap EXCEPT ![p] = ApDone("internal")]
          /\ UNCHANGED <<citas, nextId>>
       \/ /\ ap' = [ap EXCEPT ![p] = ApDone("nil")]
          /\ citas' = RepoCreate(citas, nextId, ap[p].fecha, ap[p].dur)
          /\ nextId' = nextId + 1

\* service.Update up to the answer of the schedule validator
Update(p, id, dto) ==
    /\ ap[p].pc \in {"idle", "done"}
    /\ UNCHANGED <<schedule, citas, nextId, pacientes>>
    /\ IF id <= 0
       THEN ap' = [ap EXCEPT ![p] = ApDone("invalid input")]
       ELSE IF dto.Duracion # <<>> /\ dto.Duracion[1] <= 0
       THEN ap' = [ap EXCEPT ![p] = ApDone("invalid input")]
       ELSE IF dto.Fecha = <<>> /\ dto.Duracion = <<>>
       THEN ap' = [ap EXCEPT ![p] = ApDone("nil")]
       ELSE \/ ap' = [ap EXCEPT ![p] = ApDone("internal")]
            \/ /\ ~\E a \in citas : a.id = id
               /\ ap' = [ap EXCEPT ![p] = ApDone("not found")]
            \/ \E current \in citas :
                 /\ current.id = id
                 /\ LET newFecha == IF dto.Fecha # <<>>
                                    THEN NormalizeToClinic(dto.Fecha[1])
                                    ELSE current.fecha
                        newDuracion == IF dto.Duracion # <<>> THEN dto.Duracion[1]
                                       ELSE current.dur
                        endTime == newFecha + newDuracion
                    IN \E within \in IsWithinBusinessHours(newFecha, newFecha, endTime) :
                         IF within[2] # "nil"
                         THEN ap' = [ap EXCEPT ![p] = ApDone(within[2])]
                         ELSE IF ~within[1]
                         THEN ap' = [ap EXCEPT ![p] = ApDone("invalid input")]
                         ELSE ap' = [ap EXCEPT ![p] =
                                       [ApIdle EXCEPT !.pc = "check", !.id = id,
                                                      !.dto = dto, !.fecha = newFecha,
                                                      !.dur = newDuracion]]

\* the GetBetween of service.Update and its conflict scan
UpdateScan(p) ==
    /\ ap[p].pc = "check"
    /\ UNCHANGED <<schedule, citas, nextId, pacientes>>
    /\ LET newFecha == ap[p].fecha
           endTime == newFecha + ap[p].dur
           dayStart == StartOfClinicDay(newFecha)
           dayEnd == dayStart + SecondsPerDay
       IN \/ ap' = [ap EXCEPT ![p] = ApDone("internal")]
          \/ IF UpdateConflict(GetBetween(citas, dayStart, dayEnd),
                               ap[p].id, newFecha, endTime)
             THEN ap' = [ap EXCEPT ![p] = ApDone("conflict: time slot")]
             ELSE ap' = [ap EXCEPT ![p] =
                           [ApIdle EXCEPT !.pc = "update", !.id = ap[p].id,
                                          !.dto = ap[p].dto]]

\* the repo.Update that ends service.Update
UpdateExec(p) ==
    /\ ap[p].pc = "update"
    /\ UNCHANGED <<schedule, nextId, pacientes>>
    /\ \/ /\ ap' = [ap EXCEPT ![p] = ApDone("internal")]
          /\ UNCHANGED citas
       \/ IF \E a \in citas : a.id = ap[p].id
          THEN /\ ap' = [ap EXCEPT ![p] = ApDone("nil")]
               /\ citas' = RepoUpdate(citas, ap[p].id, ap[p].dto)
          ELSE /\ ap' = [ap EXCEPT ![p] = ApDone("not found")]
               /\ UNCHANGED citas

\* service.Delete
Delete(p, id) ==
    /\ ap[p].pc \in {"idle", "done"}
    /\ UNCHANGED <<schedule, nextId, pacientes>>
    /\ IF id <= 0
       THEN /\ ap' = [ap EXCEPT ![p] = ApDone("invalid input")]
            /\ UNCHANGED citas
       ELSE \/ /\ ap' = [ap EXCEPT ![p] = ApDone("internal")]
               /\ UNCHANGED citas
            \/ IF \E a \in citas : a.id = id
               THEN /\ ap' = [ap EXCEPT ![p] = ApDone("nil")]
                    /\ citas' = { a \in citas : a.id # id }
               ELSE /\ ap' = [ap EXCEPT ![p] = ApDone("not found")]
                    /\ UNCHANGED citas

-----------------------------------------------------------------------------
(* service.CreateWithNewPatient *)

MaxPacientes == 3

NewPatientInputs ==
    { [PatientData |-> pd, AppointmentData |-> [Fecha |-> fecha, Duracion |-> dur]] :
        pd \in { [Nombre |-> "Juan Perez", Sexo |-> "M"], [Nombre |-> "", Sexo |-> "M"] },
        fecha \in FechaInputs, dur \in {0, HM(0, 30)} }

\* patient.Service.Create through the PatientAdapter: (id, err); the INSERT
\* returns the next value of the serial pacientes.id
PatientCreate(dto) ==
    IF dto.Nombre = "" \/ dto.Sexo = ""
    THEN {<<0, "invalid input">>}
    ELSE {<<0, "internal">>, <<Cardinality(pacientes) + 1, "nil">>}

\* service.CreateWithNewPatient up to the answer of patientProvider.Create
CreateWithNewPatient(p, dto) ==
    /\ ap[p].pc \in {"idle", "done"}
    /\ Cardinality(pacientes) < MaxPacientes
    /\ nextId + Cardinality({ q \in Procs : ap[q].pc \in {"patient", "scan", "insert"} })
         <= MaxId
    /\ UNCHANGED <<schedule, citas, nextId>>
    /\ IF dto.AppointmentData.Duracion <= 0
       THEN /\ ap' = [ap EXCEPT ![p] = ApDone("invalid input")]
            /\ UNCHANGED pacientes
       ELSE \E created \in PatientCreate(dto.PatientData) :
              IF created[2] # "nil"
              THEN /\ ap' = [ap EXCEPT ![p] = ApDone(created[2])]
                   /\ UNCHANGED pacientes
              ELSE /\ pacientes' = pacientes \cup {created[1]}
                   /\ ap' = [ap EXCEPT ![p] =
                               [ApIdle EXCEPT !.pc = "patient", !.paciente = created[1],
                                 !.dto = [PacienteID |-> <<created[1]>>, Nombre |-> <<>>,
                                          Fecha |-> dto.AppointmentData.Fecha,
                                          Duracion |-> dto.AppointmentData.Duracion]]]

\* the s.Create(appointmentDTO) of service.CreateWithNewPatient, up to the
\* answer of the schedule validator
CreateForNewPatient(p) ==
    /\ ap[p].pc = "patient"
    /\ UNCHANGED <<schedule, citas, nextId, pacientes>>
    /\ CreateChecks(p, ap[p].dto)

NextNewPatient ==
    \/ \E p \in Procs : \E dto \in NewPatientInputs : CreateWithNewPatient(p, dto)
    \/ \E p \in Procs : CreateForNewPatient(p)
    \/ \E p \in Procs : CreateScan(p)
    \/ \E p \in Procs : CreateInsert(p)

-----------------------------------------------------------------------------
(* service.GetAvailableSlots *)

DefaultSlotDuration == 900

SlotDurationInputs == {-900, 0, DefaultSlotDuration, HM(2, 0), HM(7, 0), HM(11, 0)}

\* a default of half an hour
HalfHourDefault(slotDuration) ==
    IF slotDuration <= 0 THEN HM(0, 30) ELSE slotDuration

EffectiveSlotDuration(slotDuration) ==
    IF slotDuration <= 0 THEN DefaultSlotDuration ELSE slotDuration

\* the comparison with both bounds included
SlotTouchesOrOverlaps(currentTime, slotEnd, appt) ==
    LET apptEnd == appt.fecha + appt.dur
    IN currentTime <= apptEnd /\ slotEnd >= appt.fecha

SlotOverlaps(currentTime, slotEnd, appt) ==
    LET apptEnd == appt.fecha + appt.dur
    IN currentTime < apptEnd /\ slotEnd > appt.fecha

\* a loop that keeps the slot that runs past endTime
RECURSIVE SlotsFromKeepLast(_, _, _, _)
SlotsFromKeepLast(currentTime, endTime, slotDuration, appointments) ==
    IF ~(currentTime < endTime) THEN <<>>
    ELSE LET slotEnd == currentTime + slotDuration
         IN <<[Start |-> currentTime, End |-> slotEnd,
               Available |-> ~\E appt \in appointments :
                                SlotOverlaps(currentTime, slotEnd, appt)]>>
            \o SlotsFromKeepLast(slotEnd, endTime, slotDuration, appointments)

\* the loop over the window, from currentTime on
RECURSIVE SlotsFrom(_, _, _, _)
SlotsFrom(currentTime, endTime, slotDuration, appointments) ==
    IF ~(currentTime < endTime) THEN <<>>
    ELSE LET slotEnd == currentTime + slotDuration
         IN IF slotEnd > endTime THEN <<>>
            ELSE <<[Start |-> currentTime, End |-> slotEnd,
                    Available |-> ~\E appt \in appointments :
                                     SlotOverlaps(currentTime, slotEnd, appt)]>>
                 \o SlotsFrom(slotEnd, endTime, slotDuration, appointments)

\* an adapter that reports every day as open
AdapterAlwaysOpen(date) == {<<FALSE, "internal">>, <<TRUE, "nil">>}

\* ScheduleAdapter.GetEffectiveDay: (isOpen, err)
AdapterGetEffectiveDay(date) ==
    {<<FALSE, "internal">>} \cup { <<eff.Active, "nil">> : eff \in EffectiveDays(date) }

\* service.GetAvailableSlots up to the answer of the schedule validator;
\* date is a calendar date, handed over as its clinic midnight
GetAvailableSlots(p, date, slotDuration) ==
    /\ ap[p].pc \in {"idle", "done"}
    /\ UNCHANGED <<schedule, citas, nextId, pacientes>>
    /\ LET call == [ApIdle EXCEPT !.dto = [Date |-> date, SlotDuration |-> slotDuration],
                                  !.fecha = date * SecondsPerDay,
                                  !.dur = EffectiveSlotDuration(slotDuration)]
       IN \E open \in AdapterGetEffectiveDay(date) :
            IF open[2] # "nil"
            THEN ap' = [ap EXCEPT ![p] = [call EXCEPT !.pc = "done", !.err = open[2]]]
            ELSE IF ~open[1]
            THEN ap' = [ap EXCEPT ![p] = [call EXCEPT !.pc = "done"]]
            ELSE ap' = [ap EXCEPT ![p] = [call EXCEPT !.pc = "slots"]]

\* a window that opens with the first effective range of the date
WindowStartOfSchedule(dayStart) ==
    LET eff == CHOOSE e \in EffectiveDays(DateCol(dayStart)) : TRUE
    IN IF eff.Ranges = <<>> THEN dayStart + HM(8, 0)
       ELSE dayStart + eff.Ranges[1].Start

\* startTime and endTime: 08:00 and 18:00 of the date
WindowStart(dayStart) == dayStart + HM(8, 0)

WindowEnd(dayStart) == dayStart + HM(18, 0)

\* the GetBetween of service.GetAvailableSlots and its loop over the window
SlotsGetBetween(p) ==
    /\ ap[p].pc = "slots"
    /\ UNCHANGED <<schedule, citas, nextId, pacientes>>
    /\ LET dayStart == ap[p].fecha
           dayEnd == dayStart + SecondsPerDay
           startTime == WindowStart(dayStart)
           endTime == WindowEnd(dayStart)
       IN \/ ap' = [ap EXCEPT ![p].pc = "done", ![p].err = "internal"]
          \/ ap' = [ap EXCEPT ![p].pc = "done",
                              ![p].slots = SlotsFrom(startTime, endTime, ap[p].dur,
                                                     GetBetween(citas, dayStart, dayEnd))]

\* appointments the store can hold: Monday 10:00-10:30 and 09:50-10:00,
\* Sunday 10:00-10:30
CitasPool ==
    { [id |-> 1, fecha |-> 1 * SecondsPerDay + HM(10, 0), dur |-> HM(0, 30)],
      [id |-> 2, fecha |-> 1 * SecondsPerDay + HM(9, 50), dur |-> HM(0, 10)],
      [id |-> 3, fecha |-> 0 * SecondsPerDay + HM(10, 0), dur |-> HM(0, 30)] }

\* any schedule and any stored appointments, which stay as they are
InitSlots ==
    /\ horarios_laborales \in
         { [w \in 1..7 |-> IF w = 7 THEN sun ELSE IF w = 1 THEN mon ELSE <<>>] :
             sun \in WorkRowsOptions, mon \in WorkRowsOptions }
    /\ horarios_especiales \in [Dates -> {<<>>, <<ClosedRow>>}]
    /\ rd = RdIdle
    /\ wr = WrIdle
    /\ citas \in SUBSET CitasPool
    /\ nextId = 4
    /\ pacientes = Pacientes
    /\ ap = [p \in Procs |-> ApIdle]

NextSlots ==
    \/ \E date \in Dates : \E slotDuration \in SlotDurationInputs :
         GetAvailableSlots(1, date, slotDuration)
    \/ SlotsGetBetween(1)

SpecSlots == InitSlots /\ [][NextSlots]_vars

-----------------------------------------------------------------------------
(* service.GetAvailableSlots with the 64-bit arithmetic of its step.  An   *)
(* int64 is the sequence of the 8 bytes of its two's complement word,      *)
(* lowest byte first; a time.Time is its seconds since the midnight of day *)
(* 0 and its nanoseconds within the second.                                *)

NanosPerSecond == 10^9

Zero64 == <<0, 0, 0, 0, 0, 0, 0, 0>>

\* the word of n, for 0 <= n < 2^31
WordOf(n) ==
    <<n % 256, (n \div 256) % 256, (n \div 65536) % 256, (n \div 16777216) % 256,
      0, 0, 0, 0>>

\* the word of 2^k
Pow2(k) == [i \in 1..8 |-> IF i = (k \div 8) + 1 THEN 2^(k % 8) ELSE 0]

RECURSIVE AddFrom(_, _, _, _)
AddFrom(a, b, i, carry) ==
    IF i > 8 THEN <<>>
    ELSE <<(a[i] + b[i] + carry) % 256>>
         \o AddFrom(a, b, i + 1, (a[i] + b[i] + carry) \div 256)

\* a + b modulo 2^64
Add64(a, b) == AddFrom(a, b, 1, 0)

\* the product of byte i of a with the byte of b that meets it in byte k
\* of a * b
Term(a, b, k, i) == IF i <= k THEN a[i] * b[k - i + 1] ELSE 0

\* the products of the bytes that fall into byte k of a * b
Column(a, b, k) ==
    Term(a, b, k, 1) + Term(a, b, k, 2) + Term(a, b, k, 3) + Term(a, b, k, 4)
    + Term(a, b, k, 5) + Term(a, b, k, 6) + Term(a, b, k, 7) + Term(a, b, k, 8)

RECURSIVE MulFrom(_, _, _, _)
MulFrom(a, b, k, carry) ==
    IF k > 8 THEN <<>>
    ELSE <<(Column(a, b, k) + carry) % 256>>
         \o MulFrom(a, b, k + 1, (Column(a, b, k) + carry) \div 256)

\* a * b modulo 2^64
Mul64(a, b) == MulFrom(a, b, 1, 0)

IsNegative(a) == a[8] >= 128

Neg64(a) == Add64([i \in 1..8 |-> 255 - a[i]], WordOf(1))

\* the unsigned word m shifted right by 9 bits
ShiftRight9(m) ==
    [i \in 1..8 |->
       (IF i + 1 <= 8 THEN m[i + 1] \div 2 ELSE 0)
       + (IF i + 2 <= 8 THEN (m[i + 2] % 2) * 128 ELSE 0)]

\* NanosPerSecond = 2^9 * FiveToNine
FiveToNine == 5^9

\* quotient and remainder of the unsigned word m by FiveToNine, from byte i
\* downwards with r carried in
RECURSIVE DivFrom(_, _, _)
DivFrom(m, i, r) ==
    IF i = 0 THEN [q |-> <<>>, r |-> r]
    ELSE LET rest == DivFrom(m, i - 1, (r * 256 + m[i]) % FiveToNine)
         IN [q |-> Append(rest.q, (r * 256 + m[i]) \div FiveToNine), r |-> rest.r]

\* seconds beyond SecCap are counted as SecCap: the window is ten hours
SecCap == 2^20

\* the value of the unsigned word, SecCap at most
Saturated(m) ==
    IF \E i \in 4..8 : m[i] # 0 THEN SecCap
    ELSE LET n == m[1] + 256 * m[2] + 65536 * m[3]
         IN IF n > SecCap THEN SecCap ELSE n

\* <<quotient, remainder>> of the unsigned word m by NanosPerSecond
DivByNanosPerSecond(m) ==
    LET d == DivFrom(ShiftRight9(m), 8, 0)
    IN <<Saturated(d.q), 512 * d.r + (m[1] + 256 * (m[2] % 2))>>

\* d / 1e9 and d % 1e9 of a Duration d, truncated toward zero
SecondsAndNanos(d) ==
    IF IsNegative(d)
    THEN LET qr == DivByNanosPerSecond(Neg64(d)) IN [sec |-> -qr[1], nsec |-> -qr[2]]
    ELSE LET qr == DivByNanosPerSecond(d) IN [sec |-> qr[1], nsec |-> qr[2]]

\* time.Duration(slotDuration) * time.Second
StepOf(slotDuration) ==
    SecondsAndNanos(Mul64(slotDuration, WordOf(NanosPerSecond)))

\* Time.Add
TimeAdd(t, d) ==
    LET nsec == t.nsec + d.nsec
    IN IF nsec >= NanosPerSecond
       THEN [sec |-> t.sec + d.sec + 1, nsec |-> nsec - NanosPerSecond]
       ELSE IF nsec < 0
       THEN [sec |-> t.sec + d.sec - 1, nsec |-> nsec + NanosPerSecond]
       ELSE [sec |-> t.sec + d.sec, nsec |-> nsec]

TimeBefore(t, u) == t.sec < u.sec \/ (t.sec = u.sec /\ t.nsec < u.nsec)

TimeAfter(t, u) == TimeBefore(u, t)

AtSecond(sec) == [sec |-> sec, nsec |-> 0]

\* 900 s, seven hours, -900 s, 2^55 s, 2^54 s and 2^55 + 900 s
SlotDurationWords ==
    { WordOf(DefaultSlotDuration), WordOf(HM(7, 0)), Neg64(WordOf(DefaultSlotDuration)),
      Pow2(55), Pow2(54), Add64(Pow2(55), WordOf(DefaultSlotDuration)) }

EffectiveSlotDuration64(slotDuration) ==
    IF IsNegative(slotDuration) \/ slotDuration = Zero64
    THEN WordOf(DefaultSlotDuration) ELSE slotDuration

\* the slots appended in one call are counted up to here
MaxSlots == 41

\* service.GetAvailableSlots up to the answer of the schedule validator
GetAvailableSlots64(p, date, slotDuration) ==
    /\ ap[p].pc \in {"idle", "done"}
    /\ UNCHANGED <<schedule, citas, nextId, pacientes>>
    /\ LET call == [ApIdle EXCEPT
                      !.dto = [Date |-> date, SlotDuration |-> slotDuration,
                               Step |-> StepOf(EffectiveSlotDuration64(slotDuration))],
                      !.fecha = date * SecondsPerDay]
       IN \E open \in AdapterGetEffectiveDay(date) :
            IF open[2] # "nil"
            THEN ap' = [ap EXCEPT ![p] = [call EXCEPT !.pc = "done", !.err = open[2]]]
            ELSE IF ~open[1]
            THEN ap' = [ap EXCEPT ![p] = [call EXCEPT !.pc = "done"]]
            ELSE ap' = [ap EXCEPT ![p] = [call EXCEPT !.pc = "between"]]

\* the GetBetween of service.GetAvailableSlots
SlotsFetch(p) ==
    /\ ap[p].pc = "between"
    /\ UNCHANGED <<schedule, citas, nextId, pacientes>>
    /\ \/ ap' = [ap EXCEPT ![p].pc = "done", ![p].err = "internal"]
       \/ ap' = [ap EXCEPT ![p].pc = "loop"]

\* currentTime of the loop: startTime, then the end of the last slot
CurrentTime(p) ==
    IF ap[p].slots = <<>> THEN AtSecond(WindowStart(ap[p].fecha))
    ELSE ap[p].slots[Len(ap[p].slots)].End

\* one pass of the loop over the window
SlotLoop(p) ==
    /\ ap[p].pc = "loop"
    /\ UNCHANGED <<schedule, citas, nextId, pacientes>>
    /\ LET currentTime == CurrentTime(p)
           endTime == AtSecond(WindowEnd(ap[p].fecha))
           slotEnd == TimeAdd(currentTime, ap[p].dto.Step)
           appointments == GetBetween(citas, ap[p].fecha, ap[p].fecha + SecondsPerDay)
       IN IF ~TimeBefore(currentTime, endTime)
          THEN ap' = [ap EXCEPT ![p].pc = "done"]
          ELSE IF TimeAfter(slotEnd, endTime)
          THEN ap' = [ap EXCEPT ![p].pc = "done"]
          ELSE /\ Len(ap[p].slots) < MaxSlots
               /\ ap' = [ap EXCEPT ![p].slots =
                           Append(@, [Start |-> currentTime, End |-> slotEnd,
                                      Available |->
                                        ~\E appt \in appointments :
                                           /\ TimeBefore(currentTime,
                                                         AtSecond(appt.fecha + appt.dur))
                                           /\ TimeAfter(slotEnd, AtSecond(appt.fecha))])]

NextSlotLoop ==
    \/ \E date \in Dates : \E slotDuration \in SlotDurationWords :
         GetAvailableSlots64(1, date, slotDuration)
    \/ SlotsFetch(1)
    \/ SlotLoop(1)

\* the clinic opens Sundays and Mondays 09:00-12:00 and 14:00-18:00 and
\* holds the appointments of CitasPool
InitWindow ==
    /\ horarios_laborales =
         [w \in 1..7 |->
            IF w \in {1, 7}
            THEN NewRows([DayOfWeek |-> w, Active |-> TRUE,
                          Ranges |-> <<TR(HM(14, 0), HM(18, 0)), TR(HM(9, 0), HM(12, 0))>>])
            ELSE <<>>]
    /\ horarios_especiales = [d \in Dates |-> <<>>]
    /\ rd = RdIdle
    /\ wr = WrIdle
    /\ citas = CitasPool
    /\ nextId = 4
    /\ pacientes = Pacientes
    /\ ap = [p \in Procs |-> ApIdle]

\* a request for the slots of a date before the schedule is rewritten
SlotsBeforeWrite(date, slotDuration) ==
    /\ wr.pc = "idle" /\ ap[1].pc = "idle"
    /\ GetAvailableSlots(1, date, slotDuration)

\* one write of the schedule once the first request has returned
WriteBetween ==
    /\ wr.pc = "idle" /\ ap[1].pc = "done"
    /\ Writes

\* a request for the slots of a date after the write
SlotsAfterWrite(date, slotDuration) ==
    /\ wr.pc = "done" /\ ap[2].pc = "idle"
    /\ GetAvailableSlots(2, date, slotDuration)

NextWindow ==
    \/ \E date \in Dates : \E slotDuration \in SlotDurationInputs :
         SlotsBeforeWrite(date, slotDuration)
    \/ SlotsGetBetween(1)
    \/ WriteBetween
    \/ \E date \in Dates : \E slotDuration \in SlotDurationInputs :
         SlotsAfterWrite(date, slotDuration)
    \/ SlotsGetBetween(2)

SpecWindow == InitWindow /\ [][NextWindow]_vars

SpecSlotLoop == InitWindow /\ [][NextSlotLoop]_vars

\* the clinic opens Sundays and Mondays 09:00-12:00 and 14:00-18:00
InitAppt ==
    /\ horarios_laborales =
         [w \in 1..7 |->
            IF w \in {1, 7}
            THEN NewRows([DayOfWeek |-> w, Active |-> TRUE,
                          Ranges |-> <<TR(HM(14, 0), HM(18, 0)), TR(HM(9, 0), HM(12, 0))>>])
            ELSE <<>>]
    /\ horarios_especiales = [d \in Dates |-> <<>>]
    /\ rd = RdIdle
    /\ wr = WrIdle
    /\ citas = {}
    /\ nextId = 1
    /\ pacientes = Pacientes
    /\ ap = [p \in Procs |-> ApIdle]

NextAppt ==
    \/ \E p \in Procs : \E dto \in CreateInputs : Create(p, dto)
    \/ \E p \in Procs : CreateScan(p)
    \/ \E p \in Procs : CreateInsert(p)
    \/ \E p \in Procs : \E id \in IdInputs : \E dto \in UpdateInputs : Update(p, id, dto)
    \/ \E p \in Procs : UpdateScan(p)
    \/ \E p \in Procs : UpdateExec(p)
    \/ \E p \in Procs : \E id \in IdInputs : Delete(p, id)

SpecAppt == InitAppt /\ [][NextAppt]_vars

SpecNewPatient == InitAppt /\ [][NextNewPatient]_vars

\* Create inputs of half an hour and of eighteen hours: Sunday 16:00,
\* Monday 09:00 and 09:30
SequentialCreateInputs ==
    { [PacienteID |-> <<1>>, Nombre |-> <<>>, Fecha |-> fecha, Duracion |-> dur] :
        fecha \in { 0 * SecondsPerDay + HM(16, 0), 1 * SecondsPerDay + HM(9, 0),
                    1 * SecondsPerDay + HM(9, 30) },
        dur \in {HM(0, 30), HM(18, 0)} }

\* one caller: each call returns before the next is made
NextSequential ==
    \/ \E dto \in SequentialCreateInputs : Create(1, dto)
    \/ CreateScan(1)
    \/ CreateInsert(1)
    \/ \E id \in IdInputs : \E dto \in UpdateInputs : Update(1, id, dto)
    \/ UpdateScan(1)
    \/ UpdateExec(1)
    \/ \E id \in IdInputs : Delete(1, id)

SpecSequential == InitAppt /\ [][NextSequential]_vars

\* Mondays open 09:00-12:00 and 14:00-18:00, Sundays closed, no appointment
InitRejected ==
    /\ horarios_laborales =
         [w \in 1..7 |->
            IF w = 1
            THEN NewRows([DayOfWeek |-> w, Active |-> TRUE,
                          Ranges |-> <<TR(HM(14, 0), HM(18, 0)), TR(HM(9, 0), HM(12, 0))>>])
            ELSE IF w = 7
            THEN NewRows([DayOfWeek |-> w, Active |-> FALSE, Ranges |-> <<>>])
            ELSE <<>>]
    /\ horarios_especiales = [d \in Dates |-> <<>>]
    /\ rd = RdIdle
    /\ wr = WrIdle
    /\ citas = {}
    /\ nextId = 1
    /\ pacientes = Pacientes
    /\ ap = [p \in Procs |-> ApIdle]

\* Create requests side by side
NextRejected ==
    \/ \E p \in Procs : \E dto \in CreateInputs : Create(p, dto)
    \/ \E p \in Procs : CreateScan(p)
    \/ \E p \in Procs : CreateInsert(p)

SpecRejected == InitRejected /\ [][NextRejected]_vars

-----------------------------------------------------------------------------
(* Properties *)

\* a call's first step issues the special-hours query
SpecialStep == rd.pc \in {"idle", "done"} /\ rd' # rd

FallbackStep == rd.pc = "fallback" /\ rd' # rd

\* a step in which GetEffectiveDay returns a day
ResolvedStep == rd' # rd /\ rd'.pc = "done" /\ rd'.eff # <<>>

Count(seq, x) == Cardinality({ i \in 1..Len(seq) : seq[i] = x })

SameBag(a, b) ==
    /\ Len(a) = Len(b)
    /\ \A i \in 1..Len(a) : Count(a, a[i]) = Count(b, a[i])

\* the hours of the stored rows that are open
StoredOpenHours(rows) ==
    LET open == SelectSeq(rows, LAMBDA row : row.abierto /\ row.hasHours)
    IN [i \in 1..Len(open) |-> TR(open[i].open, open[i].close)]

\* 1 = Monday .. 7 = Sunday of a date (day 0 is a Sunday)
WorkDayNumber(date) == IF date % 7 = 0 THEN 7 ELSE date % 7

\* the stored rows a resolved day was to be built from
MatchingRows(date, isOverride) ==
    IF isOverride THEN horarios_especiales[date]
    ELSE horarios_laborales[WorkDayNumber(date)]

HasOpenWeeklyRow(date) ==
    \E i \in 1..Len(horarios_laborales[WorkDayNumber(date)]) :
        horarios_laborales[WorkDayNumber(date)][i].abierto

\* C1: when the store holds a special row for the date, GetEffectiveDay
\* returns at once an override whose Active flag and ranges come from that
\* date's special rows alone (no weekly range is mixed in); when it holds
\* none, the call goes on to the weekly rows and the day is no override.
C1_OverridePrecedence ==
    [][ /\ (SpecialStep /\ rd'.err # "internal") =>
             LET rows == horarios_especiales[rd'.date]
             IN IF rows # <<>>
                THEN /\ rd'.pc = "done"
                     /\ rd'.eff # <<>>
                     /\ rd'.eff[1].IsOverride
                     /\ rd'.eff[1].Active = (\E i \in 1..Len(rows) : rows[i].abierto)
                     /\ SameBag(rd'.eff[1].Ranges, StoredOpenHours(rows))
                ELSE rd'.pc = "fallback"
        /\ (FallbackStep /\ rd'.err # "internal") =>
             /\ rd'.eff # <<>>
             /\ ~rd'.eff[1].IsOverride ]_vars

\* an override was returned for a date whose weekday has open weekly rows
C1_Witness ==
    /\ rd.pc = "done" /\ rd.err = "nil" /\ rd.eff # <<>>
    /\ rd.eff[1].IsOverride
    /\ Len(rd.eff[1].Ranges) = 2
    /\ horarios_especiales[rd.date] # <<>>
    /\ HasOpenWeeklyRow(rd.date)

\* C7: the ranges GetEffectiveDay returns are sorted ascending by start
\* and are exactly the hours of the open rows of the date (its special
\* rows if it has any, else the rows of its weekday): none of another key
\* or of a closed row, none dropped.
C7_SortedExactRanges ==
    [][ ResolvedStep =>
          LET e == rd'.eff[1]
          IN /\ \A i, j \in 1..Len(e.Ranges) :
                   i < j => e.Ranges[i].Start <= e.Ranges[j].Start
             /\ SameBag(e.Ranges,
                        StoredOpenHours(MatchingRows(rd'.date, e.IsOverride))) ]_vars

\* two weekly ranges stored latest first were returned earliest first
C7_Witness ==
    /\ rd.pc = "done" /\ rd.err = "nil" /\ rd.eff # <<>>
    /\ ~rd.eff[1].IsOverride
    /\ Len(rd.eff[1].Ranges) = 2
    /\ rd.eff[1].Ranges[1].Start < rd.eff[1].Ranges[2].Start
    /\ LET rows == horarios_laborales[WorkDayNumber(rd.date)]
       IN Len(rows) = 2 /\ rows[1].open > rows[2].open

\* C8: the Active flag GetEffectiveDay returns is true exactly when one of
\* the matching rows is open; a date with no special row and no row for
\* its weekday resolves to a closed day with no ranges and no error.
C8_ActiveIffOpenRow ==
    [][ ResolvedStep =>
          LET e == rd'.eff[1]
              rows == MatchingRows(rd'.date, e.IsOverride)
          IN /\ e.Active = (\E i \in 1..Len(rows) : rows[i].abierto)
             /\ rows = <<>> => (~e.Active /\ e.Ranges = <<>> /\ rd'.err = "nil") ]_vars

\* a date without any row resolved to a closed day
C8_Witness ==
    /\ rd.pc = "done" /\ rd.err = "nil" /\ rd.eff # <<>>
    /\ ~rd.eff[1].IsOverride /\ ~rd.eff[1].Active
    /\ horarios_especiales[rd.date] = <<>>
    /\ horarios_laborales[WorkDayNumber(rd.date)] = <<>>

\* C9: every GetEffectiveDay call issues the special-hours query first;
\* if it returns rows the call ends without querying the weekly rows, and
\* if it returns none the weekly rows are queried exactly once.
C9_ExactlyOnePath ==
    [][ /\ SpecialStep =>
             /\ rd'.queries = <<"GetSpecialHoursByDate">>
             /\ rd'.err # "internal" =>
                  IF horarios_especiales[rd'.date] # <<>>
                  THEN rd'.pc = "done" ELSE rd'.pc = "fallback"
        /\ FallbackStep =>
             /\ rd'.queries = <<"GetSpecialHoursByDate", "GetAllWorkingHours">>
             /\ rd'.pc = "done"
        /\ (rd'.pc = "done" /\ rd'.eff # <<>>) =>
             rd'.queries = IF rd'.eff[1].IsOverride
                           THEN <<"GetSpecialHoursByDate">>
                           ELSE <<"GetSpecialHoursByDate", "GetAllWorkingHours">> ]_vars

\* a call ended on the override path although weekly rows were there to read
C9_Witness ==
    /\ rd.pc = "done" /\ rd.err = "nil" /\ rd.eff # <<>>
    /\ rd.queries = <<"GetSpecialHoursByDate">>
    /\ HasOpenWeeklyRow(rd.date)

\* the interval lies inside the range r of the date
Contained(r, date, start, end) ==
    /\ date * SecondsPerDay + r.Start <= start
    /\ end <= date * SecondsPerDay + r.End

\* C2: on an open day IsTimeRangeWithinWorkingHours returns true exactly
\* when [start, end) lies inside one effective range of the date, and
\* otherwise fails with the outside-working-hours conflict.
C2_TrueIffContained ==
    (/\ rd.pc = "done" /\ rd.op = "IsTimeRangeWithinWorkingHours"
     /\ rd.eff # <<>> /\ rd.eff[1].Active)
    => /\ rd.ok = (\E i \in 1..Len(rd.eff[1].Ranges) :
                      Contained(rd.eff[1].Ranges[i], rd.date, rd.start, rd.end))
       /\ ~rd.ok => rd.err = "conflict: outside working hours"

\* C6: on a date whose effective day is closed the validation returns
\* false with the day-closed conflict, for every interval; a closed
\* special day is refused whatever the weekly rows of the weekday say.
C6_ClosedDayRejected ==
    [][ /\ (rd'.pc = "done" /\ rd'.op = "IsTimeRangeWithinWorkingHours"
            /\ rd'.eff # <<>> /\ ~rd'.eff[1].Active)
           => (~rd'.ok /\ rd'.err = "conflict: day closed")
        /\ (/\ SpecialStep /\ rd'.err # "internal"
            /\ rd'.op = "IsTimeRangeWithinWorkingHours"
            /\ horarios_especiales[rd'.date] # <<>>
            /\ \A i \in 1..Len(horarios_especiales[rd'.date]) :
                 ~horarios_especiales[rd'.date][i].abierto)
           => (rd'.pc = "done" /\ ~rd'.ok /\ rd'.err = "conflict: day closed") ]_vars

\* a closed special day was refused although a weekly range of the
\* weekday contains the interval
C6_Witness ==
    /\ rd.pc = "done" /\ rd.op = "IsTimeRangeWithinWorkingHours"
    /\ rd.eff # <<>> /\ rd.eff[1].IsOverride /\ ~rd.eff[1].Active
    /\ ~rd.ok /\ rd.err = "conflict: day closed"
    /\ \E i \in 1..Len(horarios_laborales[WorkDayNumber(rd.date)]) :
         LET row == horarios_laborales[WorkDayNumber(rd.date)][i]
         IN /\ row.abierto
            /\ Contained(TR(row.open, row.close), rd.date, rd.start, rd.end)

\* the rows of the key the transaction in progress replaces
RowsOfTxKey ==
    IF wr.table = "horarios_laborales" THEN horarios_laborales[wr.key]
    ELSE horarios_especiales[wr.key]

\* C5: a replace-all of a key is atomic for readers: the rows other
\* requests read change in the commit step alone, there from all the old
\* rows of the key to all the new ones, so a day resolved while the
\* transaction runs is built from the complete old rows; and a write that
\* fails leaves the rows as they were.
C5_AtomicReplace ==
    [][ /\ (<<horarios_laborales, horarios_especiales>>' #
               <<horarios_laborales, horarios_especiales>>)
           => /\ wr.pc = "commit" /\ wr'.pc = "done" /\ wr'.err = "nil"
              /\ NewRows(wr.day) =
                   (IF wr.table = "horarios_laborales"
                    THEN horarios_laborales'[wr.key]
                    ELSE horarios_especiales'[wr.key])
              /\ \A w \in 1..7 :
                   (wr.table # "horarios_laborales" \/ w # wr.key)
                   => horarios_laborales'[w] = horarios_laborales[w]
              /\ \A d \in Dates :
                   (wr.table # "horarios_especiales" \/ d # wr.key)
                   => horarios_especiales'[d] = horarios_especiales[d]
        /\ (wr' # wr /\ wr'.pc = "done" /\ wr'.err # "nil")
           => UNCHANGED <<horarios_laborales, horarios_especiales>>
        /\ (ResolvedStep /\ rd'.during \in InTx)
           => SameBag(rd'.eff[1].Ranges,
                      StoredOpenHours(MatchingRows(rd'.date, rd'.eff[1].IsOverride))) ]_vars

\* a day was resolved from the two old rows of a key after the
\* transaction replacing them had run its DELETE
C5_Witness ==
    /\ rd.pc = "done" /\ rd.err = "nil" /\ rd.eff # <<>>
    /\ rd.during \in {"insert", "insertClosed", "commit"}
    /\ Len(rd.eff[1].Ranges) = 2
    /\ wr.pc \in {"insert", "insertClosed", "commit"}
    /\ wr.key = (IF rd.eff[1].IsOverride THEN rd.date ELSE WorkDayNumber(rd.date))
    /\ wr.table = (IF rd.eff[1].IsOverride THEN "horarios_especiales"
                   ELSE "horarios_laborales")
    /\ wr.tx # RowsOfTxKey

SameClinicDay(t, u) == t \div SecondsPerDay = u \div SecondsPerDay

\* the stored appointments of the clinic day of cStart that strictly
\* overlap [cStart, cEnd)
StrictlyOverlapping(cStart, cEnd) ==
    { a \in citas : /\ SameClinicDay(a.fecha, cStart)
                    /\ cStart < a.fecha + a.dur
                    /\ cEnd > a.fecha }

\* C3: a Create whose earlier checks have passed and whose store query
\* succeeds fails with the overlap conflict if and only if an appointment
\* stored on the same clinic day strictly overlaps the candidate interval;
\* otherwise it goes on to insert the candidate, touching endpoints
\* included.
C3_CreateConflictIffOverlap ==
    [][ \A p \in Procs :
          (ap[p].pc = "scan" /\ ap'[p] # ap[p] /\ ap'[p].err # "internal")
          => LET hit == StrictlyOverlapping(ap[p].fecha, ap[p].fecha + ap[p].dur) # {}
             IN /\ (ap'[p].pc = "done" /\ ap'[p].err = "conflict: overlap") <=> hit
                /\ (ap'[p].pc = "insert" /\ ap'[p].fecha = ap[p].fecha
                                         /\ ap'[p].dur = ap[p].dur) <=> ~hit ]_vars

\* a Create was refused for an overlap while two back-to-back
\* appointments of one day are stored
C3_Witness ==
    /\ \E p \in Procs : ap[p].pc = "done" /\ ap[p].err = "conflict: overlap"
    /\ \E a, b \in citas : /\ a.fecha + a.dur = b.fecha
                           /\ SameClinicDay(a.fecha, b.fecha)

\* C4: nothing between the conflict scan and the write serializes two
\* requests: the insert that follows a passed scan stores its row whatever
\* citas holds by then, and so does the update.
C4_WriteAfterScanUnchecked ==
    [][ \A p \in Procs :
          /\ (ap[p].pc = "insert" /\ ap'[p].pc = "done" /\ ap'[p].err = "nil")
             => [id |-> nextId, fecha |-> ap[p].fecha, dur |-> ap[p].dur] \in citas'
          /\ (ap[p].pc = "update" /\ ap'[p].pc = "done" /\ ap'[p].err = "nil")
             => \E a \in citas' :
                  /\ a.id = ap[p].id
                  /\ ap[p].dto.Fecha # <<>> => a.fecha = ap[p].dto.Fecha[1]
                  /\ ap[p].dto.Duracion # <<>> => a.dur = ap[p].dto.Duracion[1] ]_vars

\* two appointments of one clinic day that strictly overlap are stored,
\* both by requests that have returned without error
C4_Witness ==
    /\ \A p \in Procs : ap[p].pc = "done" /\ ap[p].err = "nil"
    /\ \E a, b \in citas :
         /\ a.id # b.id
         /\ SameClinicDay(a.fecha, b.fecha)
         /\ a.fecha < b.fecha + b.dur
         /\ b.fecha < a.fecha + a.dur

\* C10: an Update that changes the start or the duration compares the new
\* interval with the appointments of the new day other than itself: when
\* its validation has passed and its store query succeeds it fails with the
\* time-slot conflict if and only if a stored appointment with another id
\* on that day strictly overlaps the new interval.
C10_UpdateExcludesSelf ==
    [][ \A p \in Procs :
          (ap[p].pc = "check" /\ ap'[p] # ap[p] /\ ap'[p].err # "internal")
          => LET hit == \E a \in StrictlyOverlapping(ap[p].fecha, ap[p].fecha + ap[p].dur) :
                          a.id # ap[p].id
             IN /\ (ap'[p].err = "conflict: time slot") <=> hit
                /\ (ap'[p].pc = "update") <=> ~hit ]_vars

\* an appointment was extended over its own old interval, and an Update
\* was refused for another appointment
C10_Witness ==
    /\ \E a \in citas : a.dur = HM(1, 0)
    /\ \E p \in Procs : ap[p].pc = "done" /\ ap[p].err = "conflict: time slot"

HasInvalidRange(day) ==
    \E i \in 1..Len(day.Ranges) : ~(day.Ranges[i].End > day.Ranges[i].Start)

\* the call returned invalid input in its first step, before any statement
\* reached the store, and the rows are as they were
RejectedBeforeStore ==
    /\ wr'.pc = "done" /\ wr'.err = "invalid input"
    /\ UNCHANGED <<horarios_laborales, horarios_especiales>>

StoredRangesValid ==
    /\ \A w \in 1..7 : \A i \in 1..Len(horarios_laborales[w]) :
         horarios_laborales[w][i].hasHours
         => horarios_laborales[w][i].close > horarios_laborales[w][i].open
    /\ \A d \in Dates : \A i \in 1..Len(horarios_especiales[d]) :
         horarios_especiales[d][i].hasHours
         => horarios_especiales[d][i].close > horarios_especiales[d][i].open

\* C11: UpdateWorkDay, AddSpecialDay and UpdateSpecialDay called with a
\* range whose end is not after its start return invalid input at once,
\* with no statement sent to the store and the rows unchanged; and in every
\* reachable state every stored range has close > open.
C11_InvalidRangesRejected ==
    [][ /\ \A day \in TxWorkDayInputs :
             (HasInvalidRange(day) /\ BeginUpdateWorkDay(day)) => RejectedBeforeStore
        /\ \A day \in TxSpecialDayInputs :
             (HasInvalidRange(day) /\ (BeginAddSpecialDay(day) \/ BeginUpdateSpecialDay(day)))
             => RejectedBeforeStore
        /\ StoredRangesValid' ]_vars

\* AddSpecialDay was refused for its ranges while the date keeps its two
\* stored ranges
C11_Witness ==
    /\ wr.pc = "done" /\ wr.op = "AddSpecialDay" /\ wr.err = "invalid input"
    /\ \E d \in Dates : Len(horarios_especiales[d]) = 2

\* C12: GetEffectiveRange called with start after end fails with invalid
\* input.
C12_StartAfterEndFails ==
    (rd.op = "GetEffectiveRange" /\ rd.pc = "done" /\ rd.start > rd.end)
    => rd.err = "invalid input"

\* C13: GetEffectiveRange with start <= end that returns without error
\* returns end - start + 1 days, the k-th of them for the date start + k - 1
\* and equal to what GetEffectiveDay returns for that date on the stored
\* schedule.
C13_OneDayPerDate ==
    (rd.op = "GetEffectiveRange" /\ rd.pc = "done" /\ rd.err = "nil"
        /\ rd.start <= rd.end)
    => /\ Len(rd.days) = rd.end - rd.start + 1
       /\ \A k \in 1..Len(rd.days) :
            /\ rd.days[k].Date = rd.start + k - 1
            /\ rd.days[k] \in EffectiveDays(rd.start + k - 1)

\* a range of at least two dates was resolved, one day by an override and
\* one by the weekly hours
C13_Witness ==
    /\ rd.op = "GetEffectiveRange" /\ rd.pc = "done" /\ rd.err = "nil"
    /\ rd.start < rd.end
    /\ Len(rd.days) = rd.end - rd.start + 1
    /\ \E j, k \in 1..Len(rd.days) :
         /\ rd.days[j].IsOverride /\ Len(rd.days[j].Ranges) > 0
         /\ ~rd.days[k].IsOverride /\ Len(rd.days[k].Ranges) > 0

\* C14: the weekly fallback maps the native weekday of the date to the
\* number of the WorkDay rows, Sunday (native 0) to 7 and every other day
\* to itself: the day it returns is built from the rows stored under that
\* number, a Sunday from the rows under 7.
C14_SundayIsSeven ==
    [][ /\ \A d \in 0..13 :
             /\ ISOWeekday(d) \in 1..7
             /\ ISOWeekday(d) = (IF d % 7 = 0 THEN 7 ELSE d % 7)
        /\ (FallbackStep /\ ResolvedStep)
           => LET rows == horarios_laborales[IF rd'.date % 7 = 0 THEN 7 ELSE rd'.date % 7]
              IN /\ rd'.eff[1].Active = (\E i \in 1..Len(rows) : rows[i].abierto)
                 /\ SameBag(rd'.eff[1].Ranges, StoredOpenHours(rows)) ]_vars

\* a Sunday was resolved to the two ranges stored under weekday 7 while
\* no row is stored for Monday
C14_Witness ==
    /\ rd.op = "GetEffectiveDay" /\ rd.pc = "done" /\ rd.err = "nil" /\ rd.eff # <<>>
    /\ rd.date % 7 = 0
    /\ ~rd.eff[1].IsOverride /\ rd.eff[1].Active /\ Len(rd.eff[1].Ranges) = 2
    /\ Len(horarios_laborales[7]) = 2
    /\ horarios_laborales[1] = <<>>

\* the slots request of process 1 has returned without error
SlotsReturned == ap[1].pc = "done" /\ ap[1].dto # <<>> /\ ap[1].err = "nil"

DayIsActive(date) == \E eff \in EffectiveDays(date) : eff.Active

\* the stored appointments that start on the date
FetchedFor(date) ==
    { a \in citas : a.fecha >= date * SecondsPerDay /\ a.fecha < (date + 1) * SecondsPerDay }

\* C15: on an open day, with effective slot duration d, GetAvailableSlots
\* returns floor(36000 / d) slots: the k-th starts at 08:00 + (k - 1) * d
\* and is d long, so the slots are in time order and back to back from
\* 08:00, none ends after 18:00 and a trailing partial slot is dropped; all
\* are available when the date has no appointment.
C15_SlotGrid ==
    (SlotsReturned /\ DayIsActive(ap[1].dto.Date))
    => LET d == IF ap[1].dto.SlotDuration <= 0 THEN 900 ELSE ap[1].dto.SlotDuration
           open == ap[1].dto.Date * SecondsPerDay + 8 * 3600
           close == ap[1].dto.Date * SecondsPerDay + 18 * 3600
           slots == ap[1].slots
       IN /\ Len(slots) = 36000 \div d
          /\ \A k \in 1..Len(slots) :
               /\ slots[k].Start = open + (k - 1) * d
               /\ slots[k].End = slots[k].Start + d
               /\ slots[k].End <= close
          /\ FetchedFor(ap[1].dto.Date) = {}
             => \A k \in 1..Len(slots) : slots[k].Available

\* 40 slots of 900 seconds, all available, for a date without appointments
C15_Witness ==
    /\ SlotsReturned
    /\ ap[1].dto.SlotDuration = 900
    /\ Len(ap[1].slots) = 40
    /\ FetchedFor(ap[1].dto.Date) = {}
    /\ \A k \in 1..40 : ap[1].slots[k].Available

\* C16: GetAvailableSlots called with a slot duration of zero or less
\* returns what the call with 900 seconds returns for the same date, schedule
\* and stored appointments.
C16_DefaultDuration ==
    (SlotsReturned /\ ap[1].dto.SlotDuration <= 0)
    => ap[1].slots =
         (IF DayIsActive(ap[1].dto.Date)
          THEN SlotsFrom(ap[1].dto.Date * SecondsPerDay + HM(8, 0),
                         ap[1].dto.Date * SecondsPerDay + HM(18, 0), 900,
                         FetchedFor(ap[1].dto.Date))
          ELSE <<>>)

\* a call with duration 0 returned 40 slots, some of them taken
C16_Witness ==
    /\ SlotsReturned /\ ap[1].dto.SlotDuration = 0
    /\ Len(ap[1].slots) = 40
    /\ \E k \in 1..40 : ~ap[1].slots[k].Available

\* C17: a returned slot is unavailable if and only if an appointment
\* fetched for the date strictly overlaps it; a slot that only touches an
\* appointment stays available.
C17_AvailableIffFree ==
    SlotsReturned
    => \A k \in 1..Len(ap[1].slots) :
         LET slot == ap[1].slots[k]
         IN (~slot.Available) <=>
              \E a \in FetchedFor(ap[1].dto.Date) :
                 slot.Start < a.fecha + a.dur /\ slot.End > a.fecha

\* a taken slot is followed by a free slot that starts where the
\* appointment ends
C17_Witness ==
    /\ SlotsReturned
    /\ \E k \in 1..(Len(ap[1].slots) - 1) :
         /\ ~ap[1].slots[k].Available
         /\ ap[1].slots[k + 1].Available
         /\ \E a \in FetchedFor(ap[1].dto.Date) :
              a.fecha + a.dur = ap[1].slots[k + 1].Start

\* C18: for a date whose effective day is inactive GetAvailableSlots
\* returns at once, before any query of the appointments, an empty list and
\* no error; a list with slots is returned only for an active day.
C18_ClosedDayNoSlots ==
    [][ /\ (ap[1].pc \in {"idle", "done"} /\ ap'[1] # ap[1]
               /\ ap'[1].err # "internal" /\ ~DayIsActive(ap'[1].dto.Date))
           => ap'[1].pc = "done" /\ ap'[1].err = "nil" /\ ap'[1].slots = <<>>
        /\ (ap'[1].slots # <<>>) => DayIsActive(ap'[1].dto.Date) ]_vars

\* no slots and no error for a date closed by an override over open weekly
\* hours, on which an appointment is stored
C18_Witness ==
    /\ SlotsReturned /\ ap[1].slots = <<>>
    /\ ap[1].dto.SlotDuration = 900
    /\ horarios_especiales[ap[1].dto.Date] = <<ClosedRow>>
    /\ HasOpenWeeklyRow(ap[1].dto.Date)
    /\ FetchedFor(ap[1].dto.Date) # {}

\* C19: appointment Update(id, dto) and Delete(id) with an id > 0 that no
\* stored appointment has fail with not found (or with an error of the
\* database) and leave the appointments unchanged, for every dto that passes
\* the validation of the duration, the dto that sets neither the date nor
\* the duration included.
C19_MissingIdNotFound ==
    [][ \A p \in Procs, id \in IdInputs :
          (id > 0 /\ ~\E a \in citas : a.id = id)
          => /\ \A dto \in UpdateInputs :
                  ((dto.Duracion = <<>> \/ dto.Duracion[1] > 0) /\ Update(p, id, dto))
                  => (ap'[p].err \in {"not found", "internal"} /\ citas' = citas)
             /\ Delete(p, id)
                  => (ap'[p].err \in {"not found", "internal"} /\ citas' = citas) ]_vars

\* C20: DeleteSpecialDay(date) for a date without a stored special-day row
\* fails with not found (or with an error of the database).
C20_DeleteMissingNotFound ==
    [][ \A date \in Dates :
          (horarios_especiales[date] = <<>> /\ DeleteSpecialDay(date))
          => wr'.err \in {"not found", "internal"} ]_vars

\* C21: a failure of GetSpecialHoursByDate or GetAllWorkingHours ends the
\* call of GetEffectiveDay, IsTimeRangeWithinWorkingHours, GetWorkingHours
\* or GetEffectiveRange with that error and without a result: no day, false,
\* no list, and no part of a list when a later date of a period fails; a
\* day-closed or outside-hours conflict is returned only for a resolved day.
C21_StoreFailureSurfaced ==
    [][ /\ (rd' # rd /\ rd'.err = "internal")
           => /\ rd'.pc = "done"
              /\ rd'.eff = <<>> /\ ~rd'.ok
              /\ rd'.days = <<>> /\ rd'.workDays = <<>>
        /\ (rd' # rd /\ rd'.err \in {"conflict: day closed",
                                     "conflict: outside working hours"})
           => /\ rd'.op = "IsTimeRangeWithinWorkingHours"
              /\ rd'.eff # <<>>
              /\ rd'.queries = IF rd'.eff[1].IsOverride
                               THEN <<"GetSpecialHoursByDate">>
                               ELSE <<"GetSpecialHoursByDate", "GetAllWorkingHours">>
        /\ (rd' # rd /\ rd'.pc = "done" /\ rd'.err # "internal"
               /\ rd'.op \in {"GetEffectiveDay", "IsTimeRangeWithinWorkingHours"})
           => rd'.eff # <<>> ]_vars

\* GetEffectiveRange failed on the weekly query of the second date of its
\* period and returned no list
C21_Witness ==
    /\ rd.op = "GetEffectiveRange" /\ rd.pc = "done" /\ rd.err = "internal"
    /\ rd.date > rd.start
    /\ rd.queries = <<"GetSpecialHoursByDate", "GetAllWorkingHours">>
    /\ rd.days = <<>>

\* C22: GetWorkingHours returns one WorkDay per weekday that has stored
\* rows, in ascending order of dayOfWeek; the ranges of each are the hours
\* of the open rows of the weekday in ascending order of start, and its
\* Active flag tells whether one of the rows is open; the grouping gives
\* the same lists for every order in which the rows are handed to it.
C22_GroupedByWeekday ==
    (rd.op = "GetWorkingHours" /\ rd.pc = "done" /\ rd.err = "nil")
    => /\ LET res == rd.workDays
              ws == { w \in 1..7 : horarios_laborales[w] # <<>> }
          IN /\ Len(res) = Cardinality(ws)
             /\ \A i, j \in 1..Len(res) : i < j => res[i].DayOfWeek < res[j].DayOfWeek
             /\ \A i \in 1..Len(res) :
                  /\ res[i].DayOfWeek \in ws
                  /\ LET rows == horarios_laborales[res[i].DayOfWeek]
                     IN /\ SameBag(res[i].Ranges, StoredOpenHours(rows))
                        /\ \A k, l \in 1..Len(res[i].Ranges) :
                             k < l => res[i].Ranges[k].Start <= res[i].Ranges[l].Start
                        /\ res[i].Active = (\E k \in 1..Len(rows) : rows[k].abierto)
       /\ \A raw \in GetAllWorkingHours(horarios_laborales) :
            \A arrived \in Perms(raw) : GroupWorkDays(arrived) = GroupWorkDays(raw)

\* Monday and Sunday were returned in that order, Monday with two ranges
\* stored latest first and returned earliest first, Sunday closed
C22_Witness ==
    /\ rd.op = "GetWorkingHours" /\ rd.pc = "done" /\ rd.err = "nil"
    /\ Len(rd.workDays) = 2
    /\ rd.workDays[1].DayOfWeek = 1 /\ rd.workDays[2].DayOfWeek = 7
    /\ Len(rd.workDays[1].Ranges) = 2
    /\ rd.workDays[1].Ranges[1].Start < rd.workDays[1].Ranges[2].Start
    /\ horarios_laborales[1][1].open > horarios_laborales[1][2].open
    /\ ~rd.workDays[2].Active

\* C23: UpdateWorkDay called with a dayOfWeek outside 1..7 (0 and 8 here)
\* returns invalid input at once, with no statement sent to the store and
\* the rows unchanged; no transaction on horarios_laborales ever runs for a
\* key outside 1..7, and the table holds rows for the weekdays 1..7 alone.
C23_WeekdayOutOfRangeRejected ==
    [][ /\ \A day \in TxWorkDayInputs :
             (~(day.DayOfWeek \in 1..7) /\ BeginUpdateWorkDay(day))
             => RejectedBeforeStore
        /\ (wr'.table = "horarios_laborales") => wr'.key \in 1..7
        /\ DOMAIN horarios_laborales' = 1..7 ]_vars

\* UpdateWorkDay was refused while Monday keeps its two stored ranges
C23_Witness ==
    /\ wr.pc = "done" /\ wr.op = "UpdateWorkDay" /\ wr.err = "invalid input"
    /\ Len(horarios_laborales[1]) = 2

ActiveAtFirst(date) == WorkDayNumber(date) \in {1, 7}

\* the two requests of SpecWindow have returned slots for one date and one
\* slot duration, the first before and the second after the write
SameRequestTwice ==
    /\ ap[1].pc = "done" /\ ap[1].err = "nil"
    /\ ap[2].pc = "done" /\ ap[2].err = "nil"
    /\ ap[1].dto = ap[2].dto
    /\ wr.pc = "done"

\* C25: the slots of GetAvailableSlots do not depend on the resolved
\* ranges: a request repeated for the same date and slot duration over the
\* same appointments returns the same slots with the same availability
\* whenever the date is active at both requests, whatever a schedule write
\* between them did to the effective ranges of the date.
C25_SlotsIgnoreRanges ==
    (/\ SameRequestTwice
     /\ ActiveAtFirst(ap[1].dto.Date)
     /\ DayIsActive(ap[2].dto.Date))
    => ap[2].slots = ap[1].slots

\* the same slots were returned under the weekly hours 09:00-12:00 and
\* 14:00-18:00 and under an override of other hours, and the first slot,
\* 08:00-08:15, is returned available while the business-hours check of
\* Create refuses its interval
C25_Witness ==
    /\ SameRequestTwice
    /\ wr.op = "AddSpecialDay" /\ wr.err = "nil"
    /\ ap[2].dto.SlotDuration = DefaultSlotDuration
    /\ ap[2].slots = ap[1].slots /\ ap[2].slots # <<>>
    /\ \A eff \in EffectiveDays(ap[2].dto.Date) :
         /\ eff.Active /\ eff.IsOverride
         /\ eff.Ranges = <<TR(HM(10, 0), HM(11, 0)), TR(HM(15, 0), HM(17, 0))>>
         /\ LET slot == ap[2].slots[1]
            IN /\ slot.Available
               /\ WithinWorkingHours(eff, slot.Start, slot.End)
                    = <<FALSE, "conflict: outside working hours">>

\* the rows a successful replace-all is to leave for its key
RowsFor(day) ==
    IF day.Active /\ day.Ranges # <<>>
    THEN [i \in 1..Len(day.Ranges) |->
            [hasHours |-> TRUE, open |-> day.Ranges[i].Start,
             close |-> day.Ranges[i].End, abierto |-> TRUE]]
    ELSE <<[hasHours |-> FALSE, open |-> 0, close |-> 0, abierto |-> FALSE]>>

OtherWeekdaysUnchanged(w) ==
    \A v \in 1..7 : v # w => horarios_laborales'[v] = horarios_laborales[v]

OtherDatesUnchanged(date) ==
    \A d \in Dates : d # date => horarios_especiales'[d] = horarios_especiales[d]

\* C26: a successful UpdateWorkDay leaves for its weekday one open row per
\* range when the day is active with ranges and one closed row without
\* hours otherwise, nothing of the previous rows of the weekday, and every
\* other weekday and every special row as it was; AddSpecialDay and
\* UpdateSpecialDay do the same for their date; DeleteSpecialDay removes the
\* rows of its date alone; a failed write changes nothing; and a weekday
\* that has rows keeps at least one.
C26_ReplaceAllForKey ==
    [][ /\ \A day \in WorkDayInputs :
             (UpdateWorkDay(day) /\ wr'.err = "nil")
             => /\ horarios_laborales'[day.DayOfWeek] = RowsFor(day)
                /\ OtherWeekdaysUnchanged(day.DayOfWeek)
                /\ UNCHANGED horarios_especiales
        /\ \A day \in SpecialDayInputs :
             ((AddSpecialDay(day) \/ UpdateSpecialDay(day)) /\ wr'.err = "nil")
             => /\ horarios_especiales'[day.Date] = RowsFor(day)
                /\ OtherDatesUnchanged(day.Date)
                /\ UNCHANGED horarios_laborales
        /\ \A date \in Dates :
             (DeleteSpecialDay(date) /\ wr'.err = "nil")
             => /\ horarios_especiales'[date] = <<>>
                /\ OtherDatesUnchanged(date)
                /\ UNCHANGED horarios_laborales
        /\ (wr' # wr /\ wr'.err # "nil")
             => UNCHANGED <<horarios_laborales, horarios_especiales>>
        /\ \A w \in 1..7 :
             horarios_laborales[w] # <<>> => horarios_laborales'[w] # <<>> ]_vars

\* Monday went from two open rows to one closed row by an UpdateWorkDay
\* while Sunday keeps its two rows and a date keeps its override
C26_Witness ==
    /\ wr.pc = "done" /\ wr.op = "UpdateWorkDay" /\ wr.err = "nil"
    /\ horarios_laborales[1] = <<ClosedRow>>
    /\ Len(horarios_laborales[7]) = 2
    /\ \E d \in Dates : Len(horarios_especiales[d]) = 2

\* C27: when the calls of Create, Update and Delete are made one at a
\* time on a store that starts without overlap, no two stored appointments
\* have strictly overlapping intervals [fecha, fecha + dur), those that run
\* past midnight included.
C27_NoOverlapSequential ==
    \A a, b \in citas :
      a.id # b.id => ~(a.fecha < b.fecha + b.dur /\ b.fecha < a.fecha + a.dur)

\* C28: every pass of the loop of GetAvailableSlots that appends a slot
\* moves the cursor strictly forward, so that every slot ends strictly
\* after it starts, for every 64-bit slotDuration.
C28_CursorAdvances ==
    [][ (ap[1].pc = "loop" /\ ap'[1].slots # ap[1].slots)
        => LET slot == ap'[1].slots[Len(ap'[1].slots)]
           IN /\ slot.Start = CurrentTime(1)
              /\ TimeAfter(slot.End, slot.Start) ]_vars

\* the call that wrote last, when it committed
LatestWrite(op) == wr.pc = "done" /\ wr.op = op /\ wr.err = "nil"

\* the ranges are those written, earliest start first
WrittenSorted(ranges, written) ==
    /\ \A i, j \in 1..Len(ranges) : i < j => ranges[i].Start <= ranges[j].Start
    /\ SameBag(ranges, written)

\* C29: a GetEffectiveDay that follows a committed schedule write sees
\* it.  After AddSpecialDay(date) with valid non-empty ranges R and
\* active, the call for that date returns an override that is active with
\* the ranges R sorted by start; after AddSpecialDay(date) with no ranges
\* or inactive, an override that is not active; after DeleteSpecialDay(date)
\* the call for that date goes on to the weekly rows, and what the weekly
\* path returns is never an override and holds the open hours of the
\* date's weekday; after UpdateWorkDay(w, R, active) with non-empty R the
\* weekly path of a date of weekday w returns an active day with the
\* ranges R sorted.
C29_ReadsLatestWrite ==
    [][ /\ (SpecialStep /\ LatestWrite("AddSpecialDay") /\ wr.key = rd'.date
              /\ rd'.err = "nil")
           => /\ rd'.pc = "done" /\ rd'.eff # <<>>
              /\ rd'.eff[1].IsOverride
              /\ IF wr.day.Active /\ wr.day.Ranges # <<>>
                 THEN /\ rd'.eff[1].Active
                      /\ WrittenSorted(rd'.eff[1].Ranges, wr.day.Ranges)
                 ELSE ~rd'.eff[1].Active
        /\ (SpecialStep /\ LatestWrite("DeleteSpecialDay") /\ wr.key = rd'.date
              /\ rd'.err = "nil")
           => rd'.pc = "fallback"
        /\ (FallbackStep /\ rd'.err = "nil")
           => /\ rd'.pc = "done" /\ rd'.eff # <<>>
              /\ ~rd'.eff[1].IsOverride
              /\ SameBag(rd'.eff[1].Ranges,
                         StoredOpenHours(horarios_laborales[WorkDayNumber(rd.date)]))
        /\ (FallbackStep /\ LatestWrite("UpdateWorkDay")
              /\ wr.key = WorkDayNumber(rd.date)
              /\ wr.day.Active /\ wr.day.Ranges # <<>> /\ rd'.err = "nil")
           => /\ rd'.eff[1].Active
              /\ WrittenSorted(rd'.eff[1].Ranges, wr.day.Ranges) ]_vars

\* an override written with its later range first was read back active,
\* earliest range first
C29_Witness ==
    /\ LatestWrite("AddSpecialDay")
    /\ wr.day.Active /\ Len(wr.day.Ranges) = 2
    /\ wr.day.Ranges[1].Start > wr.day.Ranges[2].Start
    /\ rd.pc = "done" /\ rd.err = "nil" /\ rd.date = wr.key /\ rd.eff # <<>>
    /\ rd.eff[1].IsOverride /\ rd.eff[1].Active
    /\ rd.eff[1].Ranges = <<wr.day.Ranges[2], wr.day.Ranges[1]>>

\* the request names a patient or carries a name
HasPatient(dto) == dto.PacienteID # <<>> \/ dto.Nombre # <<>>

\* the patient the request names is not stored
PatientMissing(dto) == dto.PacienteID # <<>> /\ dto.PacienteID[1] \notin pacientes

\* the stored rows that decide the day of the instant t
RowsOfDay(t) ==
    MatchingRows(t \div SecondsPerDay, horarios_especiales[t \div SecondsPerDay] # <<>>)

DayClosed(t) == ~\E i \in 1..Len(RowsOfDay(t)) : RowsOfDay(t)[i].abierto

InsideOpenHours(start, end) ==
    \E i \in 1..Len(StoredOpenHours(RowsOfDay(start))) :
       Contained(StoredOpenHours(RowsOfDay(start))[i], start \div SecondsPerDay,
                 start, end)

\* the checks of a Create request that come before the store is read
PassesChecks(dto) ==
    /\ HasPatient(dto) /\ dto.Duracion > 0 /\ ~PatientMissing(dto)
    /\ ~DayClosed(dto.Fecha)
    /\ InsideOpenHours(dto.Fecha, dto.Fecha + dto.Duracion)

\* C30: a Create that returns an error stores nothing.  The checks run in
\* the order: patient id or name given, duration positive, patient
\* stored, day open and interval inside the working hours, day's
\* appointments read, no overlap; a request that fails one ends there with
\* that check's error (or the failure of the lookup it needed), citas and
\* the next id unchanged by every step but a successful insert, and the
\* insert is the step of a request whose scan has passed.
C30_RejectedCreateChangesNothing ==
    [][ \A p \in Procs :
          /\ \A dto \in CreateInputs :
               (ap[p].pc \in {"idle", "done"} /\ ap'[p] # ap[p] /\ Create(p, dto))
               => /\ citas' = citas /\ nextId' = nextId
                  /\ ~HasPatient(dto) => ap'[p] = ApDone("invalid input")
                  /\ (HasPatient(dto) /\ dto.Duracion <= 0)
                     => ap'[p] = ApDone("invalid input")
                  /\ (HasPatient(dto) /\ dto.Duracion > 0 /\ PatientMissing(dto))
                     => /\ ap'[p].pc = "done"
                        /\ ap'[p].err \in {"not found", "internal"}
                  /\ (HasPatient(dto) /\ dto.Duracion > 0 /\ ~PatientMissing(dto)
                        /\ DayClosed(dto.Fecha))
                     => /\ ap'[p].pc = "done"
                        /\ ap'[p].err \in {"conflict: day closed", "internal"}
                  /\ (HasPatient(dto) /\ dto.Duracion > 0 /\ ~PatientMissing(dto)
                        /\ ~DayClosed(dto.Fecha)
                        /\ ~InsideOpenHours(dto.Fecha, dto.Fecha + dto.Duracion))
                     => /\ ap'[p].pc = "done"
                        /\ ap'[p].err \in {"conflict: outside working hours", "internal"}
                  /\ ap'[p].pc # "done" => (ap'[p].pc = "scan" /\ PassesChecks(dto))
                  /\ ap'[p].pc = "done" => ap'[p].err # "nil"
          /\ (ap[p].pc = "scan" /\ ap'[p] # ap[p])
             => /\ citas' = citas /\ nextId' = nextId
                /\ StrictlyOverlapping(ap[p].fecha, ap[p].fecha + ap[p].dur) # {}
                   => /\ ap'[p].pc = "done"
                      /\ ap'[p].err \in {"conflict: overlap", "internal"}
                /\ ap'[p].pc # "done" => ap'[p].pc = "insert"
          /\ (ap[p].pc = "insert" /\ ap'[p] # ap[p] /\ ap'[p].err # "nil")
             => citas' = citas /\ nextId' = nextId
          /\ citas' # citas
             => \E q \in Procs : ap[q].pc = "insert" /\ ap'[q] = ApDone("nil") ]_vars

\* with an appointment stored, Create requests were rejected for a closed
\* day and for an overlap
C30_Witness ==
    /\ ap[1].pc = "done" /\ ap[1].err = "conflict: day closed"
    /\ ap[2].pc = "done" /\ ap[2].err = "conflict: overlap"
    /\ citas # {}

====
